---------------------------- MODULE Spec2Model ----------------------------
(***************************************************************************)
(* Replacement-policy engines of the cache library: LruCache, LruKCache,   *)
(* LfuCache and ArcCache (ArcLruPart + ArcLfuPart).                        *)
(*                                                                         *)
(* Every engine is modelled by pure operators over a record that holds the *)
(* object's fields; an action applies one public operation, as a whole, to *)
(* the engine's variable.  A node is identified by its key (an index never *)
(* holds two nodes of one key); a linked list is the sequence of the keys  *)
(* of the nodes chained between its two sentinels.                         *)
(***************************************************************************)
EXTENDS Integers, Sequences, FiniteSets, TLC

(* ------------------------------ bounds -------------------------------- *)
NumKeys == 3
NumVals == 2
MaxCap == 2
MaxCount == 3
\* LfuCache: the ceilings tried for maxAverageNum_ and the bound on curTotalNum_
MaxAvg == 2
MaxTotal == 7
\* LruKCache, and LfuCache with its values told apart: keys and capacities
SmallNumKeys == 2
SmallMaxCap == 1
\* LruKCache: k_
MaxK == 2
\* ArcCache: transformThreshold_
MaxThreshold == 2

NumThreads == 2

MaxCalls == 3

MaxSetup == 4
\* HashLruCaches, HashLfuCache: capacity_ and sliceNum_
MaxHashCap == 3

MaxSliceNum == 2
\* the bound on curTotalNum_ of a slice of a HashLfuCache
MaxSliceTotal == 3

Keys == 1..NumKeys
Vals == 1..NumVals
SmallKeys == 1..SmallNumKeys
\* Value{} / std::nullopt / "false" of a lookup: no value.
NoVal == 0
\* Key(): the key of a sentinel node.
NoKey == 0
\* INT_MAX, the value minFreq_ is constructed with.
IntMax == 2147483647
\* The default of LfuCache's maxAverageNum parameter.
DefaultMaxAverageNum == 1000000

VARIABLES
    lru,        \* the LruCache object
    recency,    \* observer: resident keys of lru by time of last access, oldest first
    lruk,       \* the LruKCache object
    accesses,   \* observer: per key, the get/put calls on it since it was last
                \* outside the main cache of lruk (counted up to k_)
    lfu,        \* the LfuCache object
    arc,        \* the ArcCache object
    script,     \* a scripted run: its calls and the position of the next one
    threads,    \* the calls in progress in each thread, and the mutexes
    hashLru,    \* the HashLruCaches object
    hashLfu,    \* the HashLfuCache object
    last        \* observer: the last public call and what it returned

vars == <<lru, recency, lruk, accesses, lfu, arc, script, threads, hashLru, hashLfu, last>>

(* ------------------------------ helpers ------------------------------- *)
EmptyMap == [x \in {} |-> NoVal]

MapPut(f, k, x) == [y \in (DOMAIN f) \cup {k} |-> IF y = k THEN x ELSE f[y]]

MapErase(f, k) == [y \in (DOMAIN f) \ {k} |-> f[y]]

SeqRemove(s, k) == SelectSeq(s, LAMBDA x : x # k)

\* Without the first occurrence of k (the node the index maps k to).
SeqRemoveFirst(s, k) ==
    IF \E i \in 1..Len(s) : s[i] = k
    THEN LET i == CHOOSE i \in 1..Len(s) : s[i] = k /\ \A j \in 1..(i - 1) : s[j] # k
         IN  SubSeq(s, 1, i - 1) \o SubSeq(s, i + 1, Len(s))
    ELSE s

\* The record of a public call: its arguments, the value it returned (NoVal:
\* none), the value the key held before it (NoVal: not resident), the keys it
\* evicted and whether it threw.
Call(op, key, val, ret, old, evicted, err) ==
    [op |-> op, key |-> key, val |-> val, ret |-> ret, old |-> old,
     evicted |-> evicted, err |-> err]

NoCall == Call("init", NoKey, NoVal, NoVal, NoVal, {}, FALSE)

ValueOf(nodeMap, k) == IF k \in DOMAIN nodeMap THEN nodeMap[k] ELSE NoVal

(* ------------------------------ LruCache ------------------------------ *)
\* State of one LruCache<Key, Value>: capacity_, nodeMap_ (key -> value held
\* by the node) and the chain dummyHead_ ... dummyTail_ (least recent first).
LruNew(capacity) == [capacity |-> capacity, nodeMap |-> EmptyMap, list |-> << >>]

\* removeNode: unlinks the node if it is linked (prev_ alive and next_ set).
LruRemoveNode(list, k) == SeqRemove(list, k)

\* insertNode: links the node just before dummyTail_.
LruInsertNode(list, k) == Append(list, k)

\* A moveToMostRecent that links the node at the tail without unlinking it.
LruMoveToMostRecentNoUnlink(s, k) ==
    [s EXCEPT !.list = LruInsertNode(s.list, k)]

LruMoveToMostRecent(s, k) ==
    [s EXCEPT !.list = LruInsertNode(LruRemoveNode(s.list, k), k)]

LruUpdateExistingNodeNoSet(s, k, v) == LruMoveToMostRecent(s, k)

LruUpdateExistingNode(s, k, v) ==
    LruMoveToMostRecent([s EXCEPT !.nodeMap = MapPut(s.nodeMap, k, v)], k)

LruEvictLeastRecentTail(s) ==
    IF s.list = << >> THEN s
    ELSE LET leastRecent == s.list[Len(s.list)]
         IN  [s EXCEPT !.list = LruRemoveNode(s.list, leastRecent),
                       !.nodeMap = MapErase(s.nodeMap, leastRecent)]

\* dummyHead_->next_ is dummyTail_ on an empty chain: removeNode does nothing
\* (its next_ is null) and erase(Key()) finds no entry.
LruEvictLeastRecent(s) ==
    IF s.list = << >> THEN [s EXCEPT !.nodeMap = MapErase(s.nodeMap, NoKey)]
    ELSE LET leastRecent == Head(s.list)
         IN  [s EXCEPT !.list = LruRemoveNode(s.list, leastRecent),
                       !.nodeMap = MapErase(s.nodeMap, leastRecent)]

LruAddNewNodeNoEvict(s, k, v) ==
    [s EXCEPT !.list = LruInsertNode(s.list, k), !.nodeMap = MapPut(s.nodeMap, k, v)]

LruAddNewNode(s, k, v) ==
    LET t == IF Cardinality(DOMAIN s.nodeMap) = s.capacity
             THEN LruEvictLeastRecent(s) ELSE s
    IN  [t EXCEPT !.list = LruInsertNode(t.list, k), !.nodeMap = MapPut(t.nodeMap, k, v)]

LruPut(s, k, v) ==
    IF k \in DOMAIN s.nodeMap THEN LruUpdateExistingNode(s, k, v)
    ELSE LruAddNewNode(s, k, v)

\* get(key, value) and get(key): the state after the call and the value
\* returned (NoVal on a miss).
LruGet(s, k) ==
    IF k \in DOMAIN s.nodeMap
    THEN [st |-> LruMoveToMostRecent(s, k), ret |-> s.nodeMap[k]]
    ELSE [st |-> s, ret |-> NoVal]

\* remove(key) that erases the entry and leaves the node in the chain.
LruRemoveNoDetach(s, k) ==
    IF k \notin DOMAIN s.nodeMap THEN [st |-> s, err |-> TRUE]
    ELSE [st |-> [s EXCEPT !.nodeMap = MapErase(s.nodeMap, k)], err |-> FALSE]

\* remove(key): throws std::out_of_range when the key is absent.
LruRemove(s, k) ==
    IF k \notin DOMAIN s.nodeMap THEN [st |-> s, err |-> TRUE]
    ELSE [st |-> [s EXCEPT !.list = LruRemoveNode(s.list, k),
                           !.nodeMap = MapErase(s.nodeMap, k)],
          err |-> FALSE]

\* LruCache(capacity) builds the list when capacity > 0; otherwise it builds
\* a std::invalid_argument that it does not throw, and the object is left
\* with dummyHead_ and dummyTail_ null.
LruCtor(capacity) == [st |-> LruNew(capacity), err |-> FALSE]

\* Observer of the time of last access: k becomes the newest, and only
\* the keys resident afterwards are kept.
Touch(rec, k, resident) ==
    SelectSeq(Append(SeqRemove(rec, k), k), LAMBDA x : x \in resident)

(* ------------------------------ LruKCache ----------------------------- *)
\* State of one LruKCache: the base LruCache (main), historyList_ (an
\* LruCache<Key, size_t> of access counts), historyValueMap_ and k_.
LruKNew(capacity, historyListCapacity, k) ==
    [main |-> LruNew(capacity), historyList |-> LruNew(historyListCapacity),
     historyValueMap |-> EmptyMap, k |-> k]

\* historyList_->get(key), ++historyCount, historyList_->put(key, historyCount).
LruKHistoryCount(s, k) == ValueOf(s.historyList.nodeMap, k) + 1

LruKBumpHistory(s, k) ==
    [s EXCEPT !.historyList =
        LruPut(LruGet(s.historyList, k).st, k, LruKHistoryCount(s, k))]

LruKMoveToLruCacheKeepHistory(s, k, v) ==
    [st |-> [s EXCEPT !.historyValueMap = MapErase(s.historyValueMap, k),
                      !.main = LruPut(s.main, k, v)],
     err |-> FALSE]

\* moveToLruCache: historyList_->remove throws when the key is not there, and
\* then nothing after it runs.
LruKMoveToLruCache(s, k, v) ==
    IF LruRemove(s.historyList, k).err THEN [st |-> s, err |-> TRUE]
    ELSE [st |-> [s EXCEPT !.historyList = LruRemove(s.historyList, k).st,
                           !.historyValueMap = MapErase(s.historyValueMap, k),
                           !.main = LruPut(s.main, k, v)],
          err |-> FALSE]

LruKPutLateAdmission(s, k, v) ==
    IF k \in DOMAIN s.main.nodeMap
    THEN [st |-> [s EXCEPT !.main = LruPut(LruGet(s.main, k).st, k, v)], err |-> FALSE]
    ELSE LET t == [LruKBumpHistory(s, k) EXCEPT
                      !.historyValueMap = MapPut(s.historyValueMap, k, v)]
         IN  IF LruKHistoryCount(s, k) > s.k
             THEN LruKMoveToLruCache(t, k, v)
             ELSE [st |-> t, err |-> FALSE]

LruKPut(s, k, v) ==
    IF k \in DOMAIN s.main.nodeMap
    THEN [st |-> [s EXCEPT !.main = LruPut(LruGet(s.main, k).st, k, v)], err |-> FALSE]
    ELSE LET t == [LruKBumpHistory(s, k) EXCEPT
                      !.historyValueMap = MapPut(s.historyValueMap, k, v)]
         IN  IF LruKHistoryCount(s, k) >= s.k
             THEN LruKMoveToLruCache(t, k, v)
             ELSE [st |-> t, err |-> FALSE]

LruKGetNoTouch(s, k) ==
    IF k \in DOMAIN s.main.nodeMap
    THEN [st |-> s, ret |-> s.main.nodeMap[k], err |-> FALSE]
    ELSE LET t == LruKBumpHistory(s, k)
         IN  IF k \notin DOMAIN s.historyValueMap
             THEN [st |-> t, ret |-> NoVal, err |-> FALSE]
             ELSE IF LruKHistoryCount(s, k) >= s.k
             THEN LET m == LruKMoveToLruCache(t, k, s.historyValueMap[k])
                  IN  [st |-> m.st, err |-> m.err,
                       ret |-> IF m.err THEN NoVal ELSE s.historyValueMap[k]]
             ELSE [st |-> t, ret |-> s.historyValueMap[k], err |-> FALSE]

LruKGetLateAdmission(s, k) ==
    IF k \in DOMAIN s.main.nodeMap
    THEN [st |-> [s EXCEPT !.main = LruGet(s.main, k).st],
          ret |-> LruGet(s.main, k).ret, err |-> FALSE]
    ELSE LET t == LruKBumpHistory(s, k)
         IN  IF k \notin DOMAIN s.historyValueMap
             THEN [st |-> t, ret |-> NoVal, err |-> FALSE]
             ELSE IF LruKHistoryCount(s, k) > s.k
             THEN LET m == LruKMoveToLruCache(t, k, s.historyValueMap[k])
                  IN  [st |-> m.st, err |-> m.err,
                       ret |-> IF m.err THEN NoVal ELSE s.historyValueMap[k]]
             ELSE [st |-> t, ret |-> s.historyValueMap[k], err |-> FALSE]

LruKGet(s, k) ==
    IF k \in DOMAIN s.main.nodeMap
    THEN [st |-> [s EXCEPT !.main = LruGet(s.main, k).st],
          ret |-> LruGet(s.main, k).ret, err |-> FALSE]
    ELSE LET t == LruKBumpHistory(s, k)
         IN  IF k \notin DOMAIN s.historyValueMap
             THEN [st |-> t, ret |-> NoVal, err |-> FALSE]
             ELSE IF LruKHistoryCount(s, k) >= s.k
             THEN LET m == LruKMoveToLruCache(t, k, s.historyValueMap[k])
                  IN  [st |-> m.st, err |-> m.err,
                       ret |-> IF m.err THEN NoVal ELSE s.historyValueMap[k]]
             ELSE [st |-> t, ret |-> s.historyValueMap[k], err |-> FALSE]

\* Observer of the calls on each key: the called key counts one more (up to
\* k_), a key that left the main cache starts again from 0.
Accessed(acc, s, t, k) ==
    [j \in SmallKeys |->
        IF j \in (DOMAIN s.main.nodeMap) \ (DOMAIN t.main.nodeMap) THEN 0
        ELSE IF j = k /\ acc[j] < s.k THEN acc[j] + 1
        ELSE acc[j]]

(* ------------------------------ LfuCache ------------------------------ *)
\* State of one LfuCache: capacity_, minFreq_, maxAverageNum_, curAverageNum_,
\* curTotalNum_, nodeMap_ (key -> value and freq of the node) and
\* freqToFreqList_ (freq -> the chain of that FreqList, oldest first).  fault
\* records a dereference of a null FreqList pointer (operator[] on a missing
\* frequency).  entered is an observer, not a field of the class: the resident
\* keys by the time their node was last linked into a FreqList, oldest first.
LfuNew(capacity, maxAverageNum) ==
    [capacity |-> capacity, minFreq |-> IntMax, maxAverageNum |-> maxAverageNum,
     curAverageNum |-> 0, curTotalNum |-> 0, nodeMap |-> EmptyMap,
     freqToFreqList |-> EmptyMap, fault |-> FALSE, entered |-> << >>]

\* The orders in which a loop over nodeMap_ (a std::unordered_map) can visit
\* the keys S.
RECURSIVE Orders(_)
Orders(S) ==
    IF S = {} THEN {<< >>}
    ELSE UNION {{<<x>> \o t : t \in Orders(S \ {x})} : x \in S}

\* curTotalNum_ / nodeMap_.size(): an int divided by a size_t, an unsigned
\* division that is the integer quotient as long as curTotalNum_ >= 0 (it is
\* the sum of what was added minus the frequencies of the evicted nodes).
LfuAverage(total, size) == total \div size

\* FreqList::removeNode unlinks the node from the chain it is linked in.
LfuRemoveFromFreqList(s, k) ==
    IF s.nodeMap[k].freq \notin DOMAIN s.freqToFreqList
    THEN [s EXCEPT !.fault = TRUE]
    ELSE [s EXCEPT !.freqToFreqList =
            [f \in DOMAIN s.freqToFreqList |-> SeqRemove(s.freqToFreqList[f], k)]]

\* addToFreqList: creates the FreqList of the node's freq when there is none
\* and links the node at its tail.
LfuAddToFreqList(s, k) ==
    LET freq == s.nodeMap[k].freq
        old == IF freq \in DOMAIN s.freqToFreqList THEN s.freqToFreqList[freq] ELSE << >>
    IN  [s EXCEPT !.freqToFreqList = MapPut(s.freqToFreqList, freq, Append(old, k)),
                  !.entered = Append(SeqRemove(s.entered, k), k)]

\* An updateMinFreq that ends at 1 whatever the lists hold.
LfuUpdateMinFreqOne(s) == [s EXCEPT !.minFreq = 1]

LfuUpdateMinFreq(s) ==
    LET nonEmpty == {f \in DOMAIN s.freqToFreqList : s.freqToFreqList[f] # << >>}
        m == IF nonEmpty = {} THEN IntMax
             ELSE CHOOSE f \in nonEmpty : \A g \in nonEmpty : f <= g
    IN  [s EXCEPT !.minFreq = IF m = IntMax \/ m < 1 THEN 1 ELSE m]

\* A turn of the aging loop that lowers the frequency and leaves the node in
\* the list it was linked in.
LfuAgeNodeNoRelink(s, k) ==
    LET lowered == s.nodeMap[k].freq - (s.maxAverageNum \div 2)
    IN  [s EXCEPT !.nodeMap[k].freq = IF lowered < 1 THEN 1 ELSE lowered]

LfuAgeNodeNoFloor(s, k) ==
    LET t == LfuRemoveFromFreqList(s, k)
        lowered == t.nodeMap[k].freq - (t.maxAverageNum \div 2)
    IN  LfuAddToFreqList([t EXCEPT !.nodeMap[k].freq = lowered], k)

\* One turn of the loop of handleOverMaxAverageNum, on the node of key k.
LfuAgeNode(s, k) ==
    LET t == LfuRemoveFromFreqList(s, k)
        lowered == t.nodeMap[k].freq - (t.maxAverageNum \div 2)
        freq == IF lowered < 1 THEN 1 ELSE lowered
    IN  LfuAddToFreqList([t EXCEPT !.nodeMap[k].freq = freq], k)

RECURSIVE LfuAgeNodes(_, _, _)
LfuAgeNodes(s, ord, i) ==
    IF i > Len(ord) THEN s
    ELSE LfuAgeNodes(IF ord[i] \in DOMAIN s.nodeMap THEN LfuAgeNode(s, ord[i]) ELSE s,
                     ord, i + 1)

\* handleOverMaxAverageNum, visiting nodeMap_ in the order ord.
LfuHandleOverMaxAverageNum(s, ord) ==
    IF DOMAIN s.nodeMap = {} THEN s
    ELSE LfuUpdateMinFreq(LfuAgeNodes(s, ord, 1))

LfuAddFreqNum(s, ord) ==
    LET total == s.curTotalNum + 1
        size == Cardinality(DOMAIN s.nodeMap)
    IN  IF size = 0
        THEN [s EXCEPT !.curTotalNum = total, !.curAverageNum = 0]
        ELSE LET t == [s EXCEPT !.curTotalNum = total,
                                !.curAverageNum = LfuAverage(total, size)]
             IN  IF t.curAverageNum > t.maxAverageNum
                 THEN LfuHandleOverMaxAverageNum(t, ord)
                 ELSE t

LfuDecreaseFreqNum(s, num) ==
    IF num <= 0 THEN s
    ELSE LET total == s.curTotalNum - num
             size == Cardinality(DOMAIN s.nodeMap)
         IN  [s EXCEPT !.curTotalNum = total,
                       !.curAverageNum = IF size = 0 THEN 0 ELSE LfuAverage(total, size)]

LfuKickOutNewest(s) ==
    IF s.minFreq \notin DOMAIN s.freqToFreqList \/ s.freqToFreqList[s.minFreq] = << >>
    THEN [st |-> s, err |-> TRUE]
    ELSE LET l == s.freqToFreqList[s.minFreq]
             k == l[Len(l)]
             t == LfuRemoveFromFreqList(s, k)
         IN  [st |-> LfuDecreaseFreqNum([t EXCEPT !.nodeMap = MapErase(t.nodeMap, k),
                                                  !.entered = SeqRemove(t.entered, k)],
                                        s.nodeMap[k].freq),
              err |-> FALSE]

\* kickOut: throws std::invalid_argument when the FreqList of minFreq_ is
\* missing or empty; else evicts its first node.
LfuKickOut(s) ==
    IF s.minFreq \notin DOMAIN s.freqToFreqList \/ s.freqToFreqList[s.minFreq] = << >>
    THEN [st |-> s, err |-> TRUE]
    ELSE LET k == Head(s.freqToFreqList[s.minFreq])
             t == LfuRemoveFromFreqList(s, k)
         IN  [st |-> LfuDecreaseFreqNum([t EXCEPT !.nodeMap = MapErase(t.nodeMap, k),
                                                  !.entered = SeqRemove(t.entered, k)],
                                        s.nodeMap[k].freq),
              err |-> FALSE]

\* A getInternal that never advances minFreq_.
LfuBumpMinFreqNever(s, k) == s

\* The last statement of getInternal, on the node of key k: operator[] on a
\* missing minFreq_ yields a null FreqList.
LfuBumpMinFreq(s, k) ==
    IF s.nodeMap[k].freq - 1 = s.minFreq
    THEN IF s.minFreq \notin DOMAIN s.freqToFreqList THEN [s EXCEPT !.fault = TRUE]
         ELSE IF s.freqToFreqList[s.minFreq] = << >>
              THEN [s EXCEPT !.minFreq = s.minFreq + 1]
              ELSE s
    ELSE s

LfuGetInternal(s, k, ord) ==
    LET a == LfuRemoveFromFreqList(s, k)
        b == LfuAddToFreqList([a EXCEPT !.nodeMap[k].freq = a.nodeMap[k].freq + 1], k)
        c == LfuAddFreqNum(b, ord)
    IN  LfuBumpMinFreq(c, k)

LfuPutInternalNoKickOut(s, k, v, ord) ==
    LET a == [s EXCEPT !.nodeMap = MapPut(s.nodeMap, k, [value |-> v, freq |-> 1])]
        b == LfuAddFreqNum(LfuAddToFreqList(a, k), ord)
    IN  [st |-> [b EXCEPT !.minFreq = IF b.minFreq < 1 THEN b.minFreq ELSE 1],
         err |-> FALSE]

LfuPutInternal(s, k, v, ord) ==
    LET full == Cardinality(DOMAIN s.nodeMap) = s.capacity
        kicked == IF full THEN LfuKickOut(s) ELSE [st |-> s, err |-> FALSE]
    IN  IF kicked.err THEN kicked
        ELSE LET a == [kicked.st EXCEPT
                          !.nodeMap = MapPut(kicked.st.nodeMap, k, [value |-> v, freq |-> 1])]
                 b == LfuAddFreqNum(LfuAddToFreqList(a, k), ord)
             IN  [st |-> [b EXCEPT !.minFreq = IF b.minFreq < 1 THEN b.minFreq ELSE 1],
                  err |-> FALSE]

LfuPutKeepValue(s, k, v, ord) ==
    IF k \in DOMAIN s.nodeMap
    THEN [st |-> LfuGetInternal(s, k, ord), err |-> FALSE]
    ELSE LfuPutInternal(s, k, v, ord)

LfuPut(s, k, v, ord) ==
    IF k \in DOMAIN s.nodeMap
    THEN [st |-> LfuGetInternal([s EXCEPT !.nodeMap[k].value = v], k, ord), err |-> FALSE]
    ELSE LfuPutInternal(s, k, v, ord)

\* A get that counts an access on a miss as well.
LfuGetCountsMiss(s, k, ord) ==
    IF k \in DOMAIN s.nodeMap
    THEN [st |-> LfuGetInternal(s, k, ord), ret |-> s.nodeMap[k].value]
    ELSE [st |-> [s EXCEPT !.curTotalNum = s.curTotalNum + 1], ret |-> NoVal]

LfuGet(s, k, ord) ==
    IF k \in DOMAIN s.nodeMap
    THEN [st |-> LfuGetInternal(s, k, ord), ret |-> s.nodeMap[k].value]
    ELSE [st |-> s, ret |-> NoVal]

LfuPurgeKeepTotal(s) ==
    [s EXCEPT !.nodeMap = EmptyMap, !.freqToFreqList = EmptyMap,
              !.curAverageNum = 0, !.minFreq = IntMax, !.entered = << >>]

LfuPurge(s) ==
    [s EXCEPT !.nodeMap = EmptyMap, !.freqToFreqList = EmptyMap, !.curTotalNum = 0,
              !.curAverageNum = 0, !.minFreq = IntMax, !.entered = << >>]

\* LfuCache(capacity, maxAverageNum) throws std::invalid_argument when
\* capacity <= 0, and then there is no object to call.
LfuCtorNoThrow(capacity, maxAverageNum) ==
    [st |-> LfuNew(capacity, maxAverageNum), err |-> FALSE]

LfuCtor(capacity, maxAverageNum) ==
    [st |-> LfuNew(capacity, maxAverageNum), err |-> capacity <= 0]

LfuValueOf(s, k) == IF k \in DOMAIN s.nodeMap THEN s.nodeMap[k].value ELSE NoVal

(* ------------------------------ ArcLruPart ---------------------------- *)
\* State of one ArcLruPart<Key, Value>: capacity_, ghostCapacity_,
\* transformThreshold_, mainCache_ (key -> value and accessCount_ of the
\* node), the chain mainHead_ ... mainTail_ (most recent first) of the linked
\* nodes, ghostCache_ (the keys it maps) and the chain ghostHead_ ...
\* ghostTail_ (newest first), ghostCount the accessCount_ of the nodes that
\* ghostCache_ maps.  A node of mainCache_ whose key is not in mainList is
\* unlinked (prev_ and next_ reset).
ArcLruNew(capacity, transformThreshold) ==
    [capacity |-> capacity, ghostCapacity |-> capacity,
     transformThreshold |-> transformThreshold,
     mainCache |-> EmptyMap, mainList |-> << >>,
     ghostCache |-> {}, ghostList |-> << >>, ghostCount |-> EmptyMap]

\* A new ArcNode: accessCount_ starts at 1.
ArcNodeNew(value) == [value |-> value, accessCount |-> 1]

\* removeNode: unlinks the node if it is linked, else does nothing.
ArcLruRemoveNode(list, k) == SeqRemoveFirst(list, k)

ArcLruAddToFront(list, k) == <<k>> \o list

ArcLruMoveToFront(s, k) ==
    [s EXCEPT !.mainList = ArcLruAddToFront(ArcLruRemoveNode(s.mainList, k), k)]

ArcLruUpdateExistingNode(s, k, v) ==
    ArcLruMoveToFront([s EXCEPT !.mainCache[k].value = v], k)

\* removeOldestGhost: drops the node before ghostTail_ and erases its key.
ArcLruRemoveOldestGhost(s) ==
    IF s.ghostList = << >> THEN s
    ELSE [s EXCEPT !.ghostList = SubSeq(s.ghostList, 1, Len(s.ghostList) - 1),
                   !.ghostCache = @ \ {s.ghostList[Len(s.ghostList)]},
                   !.ghostCount = MapErase(@, s.ghostList[Len(s.ghostList)])]

\* resetAccessCount.
ArcLruResetAccessCount(node) == [node EXCEPT !.accessCount = 1]

\* An addToGhost that leaves the access count of the node as it is.
ArcLruAddToGhostNoReset(s, k, node) ==
    [s EXCEPT !.ghostList = <<k>> \o @, !.ghostCache = @ \cup {k},
              !.ghostCount = MapPut(@, k, node.accessCount)]

\* addToGhost of the node of key k: its access count is reset and it is
\* linked behind ghostHead_.
ArcLruAddToGhost(s, k, node) ==
    [s EXCEPT !.ghostList = <<k>> \o @, !.ghostCache = @ \cup {k},
              !.ghostCount = MapPut(@, k, ArcLruResetAccessCount(node).accessCount)]

\* evictLeastRecent: the victim is the node before mainTail_; with no linked
\* node the function returns without evicting.
ArcLruEvictLeastRecent(s) ==
    IF s.mainList = << >> THEN s
    ELSE LET k == s.mainList[Len(s.mainList)]
             t == [s EXCEPT !.mainList = ArcLruRemoveNode(s.mainList, k),
                            !.mainCache = MapErase(s.mainCache, k)]
             u == IF Cardinality(t.ghostCache) >= t.ghostCapacity
                  THEN ArcLruRemoveOldestGhost(t) ELSE t
         IN  ArcLruAddToGhost(u, k, s.mainCache[k])

ArcLruAddNewNode(s, k, v) ==
    LET t == IF Cardinality(DOMAIN s.mainCache) >= s.capacity
             THEN ArcLruEvictLeastRecent(s) ELSE s
    IN  [t EXCEPT !.mainList = ArcLruAddToFront(t.mainList, k),
                  !.mainCache = MapPut(t.mainCache, k, ArcNodeNew(v))]

ArcLruPut(s, k, v) ==
    IF s.capacity = 0 THEN [st |-> s, ret |-> FALSE]
    ELSE IF k \in DOMAIN s.mainCache
    THEN [st |-> ArcLruUpdateExistingNode(s, k, v), ret |-> TRUE]
    ELSE [st |-> ArcLruAddNewNode(s, k, v), ret |-> TRUE]

\* An updateNodeAccess that asks for the promotion only above the threshold.
ArcLruUpdateNodeAccessStrict(s, k) ==
    [st |-> [ArcLruMoveToFront(s, k) EXCEPT !.mainCache[k].accessCount = @ + 1],
     ret |-> s.mainCache[k].accessCount + 1 > s.transformThreshold]

\* updateNodeAccess: moveToFront links the node (again), the count grows.
ArcLruUpdateNodeAccess(s, k) ==
    [st |-> [ArcLruMoveToFront(s, k) EXCEPT !.mainCache[k].accessCount = @ + 1],
     ret |-> s.mainCache[k].accessCount + 1 >= s.transformThreshold]

ArcLruGet(s, k) ==
    IF k \in DOMAIN s.mainCache
    THEN [st |-> ArcLruUpdateNodeAccess(s, k).st, ret |-> TRUE,
          value |-> s.mainCache[k].value,
          shouldTransform |-> ArcLruUpdateNodeAccess(s, k).ret]
    ELSE [st |-> s, ret |-> FALSE, value |-> NoVal, shouldTransform |-> FALSE]

\* A checkGhost that reports the hit and leaves the ghost where it is.
ArcLruCheckGhostKeep(s, k) == [st |-> s, ret |-> k \in s.ghostCache]

ArcLruCheckGhost(s, k) ==
    IF k \in s.ghostCache
    THEN [st |-> [s EXCEPT !.ghostList = ArcLruRemoveNode(s.ghostList, k),
                           !.ghostCache = @ \ {k},
                           !.ghostCount = MapErase(@, k)],
          ret |-> TRUE]
    ELSE [st |-> s, ret |-> FALSE]

ArcLruIncreaseCapacity(s) == [s EXCEPT !.capacity = @ + 1]

ArcLruDecreaseCapacity(s) ==
    IF s.capacity <= 0 THEN [st |-> s, ret |-> FALSE]
    ELSE LET t == IF Cardinality(DOMAIN s.mainCache) = s.capacity
                  THEN ArcLruEvictLeastRecent(s) ELSE s
         IN  [st |-> [t EXCEPT !.capacity = @ - 1], ret |-> TRUE]

\* remove: unlinks the node of the key and leaves mainCache_ as it is.
\* ArcCache::get calls it only for a key that get has just found.
ArcLruRemove(s, k) ==
    [s EXCEPT !.mainList = ArcLruRemoveNode(s.mainList, k)]

(* ------------------------------ ArcLfuPart ---------------------------- *)
\* State of one ArcLfuPart<Key, Value>: capacity_, ghostCapacity_,
\* transformThreshold_, minFreq_, mainCache_ (key -> value and accessCount_),
\* freqMap_ (frequency -> the std::list of that frequency, front first),
\* ghostCache_ (the keys it maps) and the ghost chain (newest first).
ArcLfuNew(capacity, transformThreshold) ==
    [capacity |-> capacity, ghostCapacity |-> capacity,
     transformThreshold |-> transformThreshold, minFreq |-> 0,
     mainCache |-> EmptyMap, freqMap |-> EmptyMap,
     ghostCache |-> {}, ghostList |-> << >>]

\* freqMap_[freq]: operator[] creates an empty list for a missing frequency.
ArcLfuFreqList(freqMap, freq) ==
    IF freq \in DOMAIN freqMap THEN freqMap[freq] ELSE << >>

ArcLfuUpdateNodeFrequency(s, k) ==
    LET oldFreq == s.mainCache[k].accessCount
        newFreq == oldFreq + 1
        oldList == SeqRemove(ArcLfuFreqList(s.freqMap, oldFreq), k)
        emptied == oldList = << >>
        fm == IF emptied THEN MapErase(s.freqMap, oldFreq)
              ELSE MapPut(s.freqMap, oldFreq, oldList)
    IN  [s EXCEPT !.mainCache[k].accessCount = newFreq,
                  !.minFreq = IF emptied /\ oldFreq = s.minFreq THEN newFreq ELSE @,
                  !.freqMap = MapPut(fm, newFreq, Append(ArcLfuFreqList(fm, newFreq), k))]

ArcLfuUpdateExistingNode(s, k, v) ==
    ArcLfuUpdateNodeFrequency([s EXCEPT !.mainCache[k].value = v], k)

\* removeOldestElementInGhost: the node before ghostTail_, unless that is
\* ghostHead_ (whose prev_ is expired).
ArcLfuRemoveOldestElementInGhost(s) ==
    IF s.ghostList = << >> THEN s
    ELSE [s EXCEPT !.ghostList = SubSeq(s.ghostList, 1, Len(s.ghostList) - 1),
                   !.ghostCache = @ \ {s.ghostList[Len(s.ghostList)]}]

ArcLfuAddToGhost(s, k) ==
    LET t == IF Cardinality(s.ghostCache) >= s.ghostCapacity
             THEN ArcLfuRemoveOldestElementInGhost(s) ELSE s
    IN  [t EXCEPT !.ghostList = <<k>> \o @, !.ghostCache = @ \cup {k}]

\* evictLeastFrequent: freqMap_[minFreq_] creates the list if it is missing
\* and the function returns when it is empty; else the front of the list goes
\* to the ghost chain and minFreq_ becomes the least frequency left.
ArcLfuEvictLeastFrequent(s) ==
    IF DOMAIN s.freqMap = {} THEN s
    ELSE IF ArcLfuFreqList(s.freqMap, s.minFreq) = << >>
    THEN [s EXCEPT !.freqMap = MapPut(s.freqMap, s.minFreq, << >>)]
    ELSE LET minFreqList == s.freqMap[s.minFreq]
             k == Head(minFreqList)
             fm == IF Tail(minFreqList) = << >> THEN MapErase(s.freqMap, s.minFreq)
                   ELSE MapPut(s.freqMap, s.minFreq, Tail(minFreqList))
             least == CHOOSE f \in DOMAIN fm : \A g \in DOMAIN fm : f <= g
             t == [s EXCEPT !.freqMap = fm,
                            !.minFreq = IF Tail(minFreqList) = << >> /\ DOMAIN fm # {}
                                        THEN least ELSE @]
             u == IF Cardinality(t.ghostCache) >= t.ghostCapacity
                  THEN ArcLfuRemoveOldestElementInGhost(t) ELSE t
             w == ArcLfuAddToGhost(u, k)
         IN  [w EXCEPT !.mainCache = MapErase(w.mainCache, k)]

ArcLfuAddNewNodeToMainCache(s, k, v) ==
    LET t == IF Cardinality(DOMAIN s.mainCache) >= s.capacity
             THEN ArcLfuEvictLeastFrequent(s) ELSE s
    IN  [t EXCEPT !.mainCache = MapPut(t.mainCache, k, ArcNodeNew(v)),
                  !.freqMap = MapPut(t.freqMap, 1, Append(ArcLfuFreqList(t.freqMap, 1), k)),
                  !.minFreq = 1]

ArcLfuPut(s, k, v) ==
    IF s.capacity = 0 THEN [st |-> s, ret |-> FALSE]
    ELSE IF k \in DOMAIN s.mainCache
    THEN [st |-> ArcLfuUpdateExistingNode(s, k, v), ret |-> TRUE]
    ELSE [st |-> ArcLfuAddNewNodeToMainCache(s, k, v), ret |-> TRUE]

ArcLfuGet(s, k) ==
    IF k \in DOMAIN s.mainCache
    THEN [st |-> ArcLfuUpdateNodeFrequency(s, k), ret |-> TRUE,
          value |-> s.mainCache[k].value]
    ELSE [st |-> s, ret |-> FALSE, value |-> NoVal]

ArcLfuContain(s, k) == k \in DOMAIN s.mainCache

ArcLfuCheckGhost(s, k) ==
    IF k \in s.ghostCache
    THEN [st |-> [s EXCEPT !.ghostList = SeqRemoveFirst(s.ghostList, k),
                           !.ghostCache = @ \ {k}],
          ret |-> TRUE]
    ELSE [st |-> s, ret |-> FALSE]

ArcLfuIncreaseCapacity(s) == [s EXCEPT !.capacity = @ + 1]

ArcLfuDecreaseCapacity(s) ==
    IF s.capacity <= 0 THEN [st |-> s, ret |-> FALSE]
    ELSE LET t == IF Cardinality(DOMAIN s.mainCache) = s.capacity
                  THEN ArcLfuEvictLeastFrequent(s) ELSE s
         IN  [st |-> [t EXCEPT !.capacity = @ - 1], ret |-> TRUE]

(* ------------------------------- ArcCache ----------------------------- *)
\* State of one ArcCache<Key, Value>: capacity_, transformThreshold_ and the
\* two parts, each constructed with the whole capacity.
ArcNew(capacity, transformThreshold) ==
    [capacity |-> capacity, transformThreshold |-> transformThreshold,
     lruPart |-> ArcLruNew(capacity, transformThreshold),
     lfuPart |-> ArcLfuNew(capacity, transformThreshold)]

ArcCheckGhostCachesAlwaysIncrease(s, k) ==
    IF ArcLruCheckGhost(s.lruPart, k).ret
    THEN [st |-> [s EXCEPT !.lruPart = ArcLruIncreaseCapacity(ArcLruCheckGhost(s.lruPart, k).st),
                           !.lfuPart = ArcLfuDecreaseCapacity(s.lfuPart).st],
          ret |-> TRUE]
    ELSE IF ArcLfuCheckGhost(s.lfuPart, k).ret
    THEN [st |-> [s EXCEPT !.lruPart = ArcLruDecreaseCapacity(s.lruPart).st,
                           !.lfuPart = ArcLfuIncreaseCapacity(ArcLfuCheckGhost(s.lfuPart, k).st)],
          ret |-> TRUE]
    ELSE [st |-> s, ret |-> FALSE]

ArcCheckGhostCaches(s, k) ==
    IF ArcLruCheckGhost(s.lruPart, k).ret
    THEN LET l == ArcLruCheckGhost(s.lruPart, k).st
             d == ArcLfuDecreaseCapacity(s.lfuPart)
         IN  [st |-> [s EXCEPT !.lruPart = IF d.ret THEN ArcLruIncreaseCapacity(l) ELSE l,
                               !.lfuPart = d.st],
              ret |-> TRUE]
    ELSE IF ArcLfuCheckGhost(s.lfuPart, k).ret
    THEN LET f == ArcLfuCheckGhost(s.lfuPart, k).st
             d == ArcLruDecreaseCapacity(s.lruPart)
         IN  [st |-> [s EXCEPT !.lruPart = d.st,
                               !.lfuPart = IF d.ret THEN ArcLfuIncreaseCapacity(f) ELSE f],
              ret |-> TRUE]
    ELSE [st |-> s, ret |-> FALSE]

\* put: the ghost check, then the part that holds the key (the LFU part if it
\* contains it, else the LRU part).
ArcPut(s, k, v) ==
    LET t == ArcCheckGhostCaches(s, k).st
    IN  IF ArcLfuContain(t.lfuPart, k)
        THEN [t EXCEPT !.lfuPart = ArcLfuPut(t.lfuPart, k, v).st]
        ELSE [t EXCEPT !.lruPart = ArcLruPut(t.lruPart, k, v).st]

\* get(key, value): the ghost check (the call written checkGhost(key) is the
\* class's checkGhostCaches), the LRU part, a promotion when it asks for one,
\* else the LFU part.  ret is the value handed back, NoVal for "false".
ArcGet(s, k) ==
    LET t == ArcCheckGhostCaches(s, k).st
        r == ArcLruGet(t.lruPart, k)
        g == ArcLfuGet(t.lfuPart, k)
    IN  IF r.ret
        THEN IF r.shouldTransform
             THEN [st |-> [t EXCEPT !.lruPart = ArcLruRemove(r.st, k),
                                    !.lfuPart = ArcLfuPut(t.lfuPart, k, r.value).st],
                   ret |-> r.value]
             ELSE [st |-> [t EXCEPT !.lruPart = r.st], ret |-> r.value]
        ELSE [st |-> [t EXCEPT !.lfuPart = g.st], ret |-> g.value]

(* -------------------- HashLruCaches, HashLfuCache --------------------- *)
\* std::ceil(static_cast<double>(capacity_) / sliceNum_), converted to size_t.
SliceSize(capacity, sliceNum) ==
    IF capacity % sliceNum = 0 THEN capacity \div sliceNum
    ELSE (capacity \div sliceNum) + 1

\* Hash(key): std::hash of an integer key is the key itself.
Hash(key) == key

SliceIndex(s, key) == Hash(key) % s.sliceNum

\* State of one HashLruCaches: capacity_, sliceNum_ and lruSliceCaches_
\* (indexed from 0), each slice an LruCache of capacity sliceSize.
HashLruNew(capacity, sliceNum) ==
    [capacity |-> capacity, sliceNum |-> sliceNum,
     lruSliceCaches |-> [i \in 0..(sliceNum - 1) |->
                            LruCtor(SliceSize(capacity, sliceNum)).st]]

HashLruPut(s, k, v) ==
    [s EXCEPT !.lruSliceCaches[SliceIndex(s, k)] = LruPut(@, k, v)]

\* get(key, value): the result of the slice's get, and the value it wrote.
HashLruGet(s, k) ==
    LET r == LruGet(s.lruSliceCaches[SliceIndex(s, k)], k)
    IN  [st |-> [s EXCEPT !.lruSliceCaches[SliceIndex(s, k)] = r.st],
         ret |-> r.ret # NoVal, value |-> r.ret]

\* State of one HashLfuCache: capacity_, sliceNum_ and LfuSliceCaches_, each
\* slice an LfuCache of capacity sliceSize and the default maxAverageNum.
HashLfuNew(capacity, sliceNum) ==
    [capacity |-> capacity, sliceNum |-> sliceNum,
     LfuSliceCaches |-> [i \in 0..(sliceNum - 1) |->
                            LfuCtor(SliceSize(capacity, sliceNum),
                                    DefaultMaxAverageNum).st]]

HashLfuPut(s, k, v, ord) ==
    LET r == LfuPut(s.LfuSliceCaches[SliceIndex(s, k)], k, v, ord)
    IN  [st |-> [s EXCEPT !.LfuSliceCaches[SliceIndex(s, k)] = r.st], err |-> r.err]

\* get(key, value): calls the slice's get, drops its result and returns true.
HashLfuGet(s, k, ord) ==
    LET r == LfuGet(s.LfuSliceCaches[SliceIndex(s, k)], k, ord)
    IN  [st |-> [s EXCEPT !.LfuSliceCaches[SliceIndex(s, k)] = r.st],
         ret |-> TRUE, value |-> r.ret]

HashLfuPurge(s) ==
    [s EXCEPT !.LfuSliceCaches = [i \in DOMAIN s.LfuSliceCaches |->
                                     LfuPurge(s.LfuSliceCaches[i])]]

(* ---------------------------- specifications -------------------------- *)
IdleLru == LruNew(1)

IdleLruK == LruKNew(1, 1, 1)

IdleAccesses == [j \in SmallKeys |-> 0]

IdleLfu == LfuNew(1, DefaultMaxAverageNum)

IdleArc == ArcNew(1, 1)

\* No scripted run.
IdleScript == [calls |-> << >>, pos |-> 1]

\* No thread, and the value of a mutex nobody holds.
NoThread == 0

Threads == 1..NumThreads

IdleThreads == [pc |-> << >>, mutex |-> NoThread]

IdleHashLru == HashLruNew(1, 1)

IdleHashLfu == HashLfuNew(1, 1)

InitLru ==
    /\ \E c \in 1..MaxCap : lru = LruNew(c)
    /\ recency = << >>
    /\ last = NoCall
    /\ lruk = IdleLruK
    /\ accesses = IdleAccesses
    /\ lfu = IdleLfu
    /\ arc = IdleArc
    /\ script = IdleScript
    /\ threads = IdleThreads
    /\ hashLru = IdleHashLru
    /\ hashLfu = IdleHashLfu

LruPutAction ==
    \E k \in Keys, v \in Vals :
        /\ lru' = LruPut(lru, k, v)
        /\ recency' = Touch(recency, k, DOMAIN lru'.nodeMap)
        /\ last' = Call("put", k, v, NoVal, ValueOf(lru.nodeMap, k),
                        (DOMAIN lru.nodeMap) \ (DOMAIN lru'.nodeMap), FALSE)
        /\ UNCHANGED <<lruk, accesses, lfu, arc, script, threads, hashLru, hashLfu>>

LruGetAction ==
    \E k \in Keys :
        /\ lru' = LruGet(lru, k).st
        /\ recency' = IF k \in DOMAIN lru.nodeMap
                      THEN Touch(recency, k, DOMAIN lru'.nodeMap) ELSE recency
        /\ last' = Call("get", k, NoVal, LruGet(lru, k).ret, ValueOf(lru.nodeMap, k),
                        (DOMAIN lru.nodeMap) \ (DOMAIN lru'.nodeMap), FALSE)
        /\ UNCHANGED <<lruk, accesses, lfu, arc, script, threads, hashLru, hashLfu>>

LruRemoveAction ==
    \E k \in Keys :
        /\ lru' = LruRemove(lru, k).st
        /\ recency' = SelectSeq(recency, LAMBDA x : x \in DOMAIN lru'.nodeMap)
        /\ last' = Call("remove", k, NoVal, NoVal, ValueOf(lru.nodeMap, k), {},
                        LruRemove(lru, k).err)
        /\ UNCHANGED <<lruk, accesses, lfu, arc, script, threads, hashLru, hashLfu>>

NextLru == LruPutAction \/ LruGetAction \/ LruRemoveAction

SpecLru == InitLru /\ [][NextLru]_vars

\* The constructors, called with capacities from -1 up.
CtorCapacities == (0 - 1)..MaxCap

InitLruCtor ==
    /\ \E c \in CtorCapacities :
           /\ lru = LruCtor(c).st
           /\ last = Call("new", NoKey, NoVal, NoVal, NoVal, {}, LruCtor(c).err)
    /\ recency = << >>
    /\ lruk = IdleLruK
    /\ accesses = IdleAccesses
    /\ lfu = IdleLfu
    /\ arc = IdleArc
    /\ script = IdleScript
    /\ threads = IdleThreads
    /\ hashLru = IdleHashLru
    /\ hashLfu = IdleHashLfu

\* put on a cache without list: a resident key there is none, and addNewNode
\* dereferences dummyHead_ (capacity 0) or dummyTail_ (capacity < 0), which
\* are null; the call does not complete.
LruPutNoList ==
    /\ lru.capacity <= 0
    /\ \E k \in Keys, v \in Vals :
           last' = Call("put", k, v, NoVal, NoVal, {}, TRUE)
    /\ UNCHANGED <<lru, recency, lruk, accesses, lfu, arc, script, threads, hashLru, hashLfu>>

NextLruCtor ==
    \/ (lru.capacity > 0 /\ LruPutAction)
    \/ LruPutNoList
    \/ LruGetAction
    \/ LruRemoveAction

SpecLruCtor == InitLruCtor /\ [][NextLruCtor]_vars

InitLruK ==
    /\ \E c \in 1..SmallMaxCap, h \in {SmallMaxCap, SmallNumKeys}, k \in {1, MaxK} : lruk = LruKNew(c, h, k)
    /\ accesses = IdleAccesses
    /\ last = NoCall
    /\ lru = IdleLru
    /\ recency = << >>
    /\ lfu = IdleLfu
    /\ arc = IdleArc
    /\ script = IdleScript
    /\ threads = IdleThreads
    /\ hashLru = IdleHashLru
    /\ hashLfu = IdleHashLfu

\* The history count of a key outside the main cache grows with every call;
\* the calls are followed until it is one past k_.
LruKPutAction ==
    \E k \in SmallKeys, v \in Vals :
        \E r \in {LruKPut(lruk, k, v)} :
            /\ k \notin DOMAIN lruk.main.nodeMap => LruKHistoryCount(lruk, k) <= lruk.k + 1
            /\ lruk' = r.st
            /\ accesses' = Accessed(accesses, lruk, r.st, k)
            /\ last' = Call("put", k, v, NoVal, NoVal,
                            (DOMAIN lruk.main.nodeMap) \ (DOMAIN r.st.main.nodeMap), r.err)
            /\ UNCHANGED <<lru, recency, lfu, arc, script, threads, hashLru, hashLfu>>

LruKGetAction ==
    \E k \in SmallKeys :
        \E r \in {LruKGet(lruk, k)} :
            /\ k \notin DOMAIN lruk.main.nodeMap => LruKHistoryCount(lruk, k) <= lruk.k + 1
            /\ lruk' = r.st
            /\ accesses' = Accessed(accesses, lruk, r.st, k)
            /\ last' = Call("get", k, NoVal, r.ret, NoVal,
                            (DOMAIN lruk.main.nodeMap) \ (DOMAIN r.st.main.nodeMap), r.err)
            /\ UNCHANGED <<lru, recency, lfu, arc, script, threads, hashLru, hashLfu>>

NextLruK == LruKPutAction \/ LruKGetAction

SpecLruK == InitLruK /\ [][NextLruK]_vars

\* An LruKCache with k_ = 1 and an LruCache of the same capacity, given the
\* same calls.  last records what the LruKCache returned.
InitLruK1 ==
    /\ \E c \in 1..MaxCap, h \in 1..MaxCap : lruk = LruKNew(c, h, 1) /\ lru = LruNew(c)
    /\ recency = << >>
    /\ accesses = IdleAccesses
    /\ last = NoCall
    /\ lfu = IdleLfu
    /\ arc = IdleArc
    /\ script = IdleScript
    /\ threads = IdleThreads
    /\ hashLru = IdleHashLru
    /\ hashLfu = IdleHashLfu

LruK1PutAction ==
    \E k \in Keys, v \in Vals :
        \E r \in {LruKPut(lruk, k, v)} :
            /\ k \notin DOMAIN lruk.main.nodeMap => LruKHistoryCount(lruk, k) <= lruk.k + 1
            /\ lruk' = r.st
            /\ lru' = LruPut(lru, k, v)
            /\ last' = Call("put", k, v, NoVal, NoVal,
                            (DOMAIN lruk.main.nodeMap) \ (DOMAIN r.st.main.nodeMap), r.err)
            /\ UNCHANGED <<recency, accesses, lfu, arc, script, threads, hashLru, hashLfu>>

LruK1GetAction ==
    \E k \in Keys :
        \E r \in {LruKGet(lruk, k)} :
            /\ k \notin DOMAIN lruk.main.nodeMap => LruKHistoryCount(lruk, k) <= lruk.k + 1
            /\ lruk' = r.st
            /\ lru' = LruGet(lru, k).st
            /\ last' = Call("get", k, NoVal, r.ret, NoVal,
                            (DOMAIN lruk.main.nodeMap) \ (DOMAIN r.st.main.nodeMap), r.err)
            /\ UNCHANGED <<recency, accesses, lfu, arc, script, threads, hashLru, hashLfu>>

NextLruK1 == LruK1PutAction \/ LruK1GetAction

SpecLruK1 == InitLruK1 /\ [][NextLruK1]_vars

InitLfuWith(caps) ==
    /\ \E c \in caps, m \in {1, MaxAvg, DefaultMaxAverageNum} : lfu = LfuNew(c, m)
    /\ last = NoCall
    /\ lru = IdleLru
    /\ recency = << >>
    /\ lruk = IdleLruK
    /\ accesses = IdleAccesses
    /\ arc = IdleArc
    /\ script = IdleScript
    /\ threads = IdleThreads
    /\ hashLru = IdleHashLru
    /\ hashLfu = IdleHashLfu

\* The visiting orders to tell apart for a call on key k: the order matters
\* only to handleOverMaxAverageNum, which addFreqNum runs when the new average
\* exceeds maxAverageNum_; curTotalNum_ + 1 is the largest total and the size
\* and the keys are the ones nodeMap_ holds then.
LfuOrders(s, k) ==
    LET full == Cardinality(DOMAIN s.nodeMap) = s.capacity
        after == IF k \in DOMAIN s.nodeMap THEN DOMAIN s.nodeMap
                 ELSE IF full THEN (DOMAIN LfuKickOut(s).st.nodeMap) \cup {k}
                 ELSE (DOMAIN s.nodeMap) \cup {k}
    IN  IF (s.curTotalNum + 1) \div Cardinality(after) > s.maxAverageNum
        THEN Orders(after)
        ELSE {<< >>}

\* curTotalNum_ grows with every hit; the calls are followed while it is at
\* most MaxTotal.
LfuPutOn(K, V) ==
    \E k \in K, v \in V :
        \E ord \in LfuOrders(lfu, k) :
            \E r \in {LfuPut(lfu, k, v, ord)} :
                /\ r.st.curTotalNum <= MaxTotal
                /\ lfu' = r.st
                /\ last' = Call("put", k, v, NoVal, LfuValueOf(lfu, k),
                                (DOMAIN lfu.nodeMap) \ (DOMAIN r.st.nodeMap), r.err)
                /\ UNCHANGED <<lru, recency, lruk, accesses, arc, script, threads, hashLru, hashLfu>>

LfuGetOn(K) ==
    \E k \in K :
        \E ord \in IF k \in DOMAIN lfu.nodeMap THEN LfuOrders(lfu, k) ELSE {<< >>} :
            \E r \in {LfuGet(lfu, k, ord)} :
                /\ r.st.curTotalNum <= MaxTotal
                /\ lfu' = r.st
                /\ last' = Call("get", k, NoVal, r.ret, LfuValueOf(lfu, k),
                                (DOMAIN lfu.nodeMap) \ (DOMAIN r.st.nodeMap), FALSE)
                /\ UNCHANGED <<lru, recency, lruk, accesses, arc, script, threads, hashLru, hashLfu>>

LfuPurgeAction ==
    /\ lfu' = LfuPurge(lfu)
    /\ last' = Call("purge", NoKey, NoVal, NoVal, NoVal, DOMAIN lfu.nodeMap, FALSE)
    /\ UNCHANGED <<lru, recency, lruk, accesses, arc, script, threads, hashLru, hashLfu>>

\* The structure of the cache (index, frequency lists, counters) does not
\* depend on the values stored: SpecLfu follows it over Keys with one value,
\* SpecLfuValues follows the values over fewer keys.
InitLfu == InitLfuWith(1..MaxCap)

LfuPutAction == LfuPutOn(Keys, {1})

LfuGetAction == LfuGetOn(Keys)

NextLfu == LfuPutAction \/ LfuGetAction \/ LfuPurgeAction

SpecLfu == InitLfu /\ [][NextLfu]_vars

\* One workload run against an LruCache and an LfuCache of the same
\* capacity, call by call; last.ret and last.old hold the pair of the two
\* results (LruCache first).  What a miss does is independent of the values
\* stored, so one value is put.
InitLruAndLfu ==
    /\ \E c \in 1..MaxCap, m \in {MaxAvg, DefaultMaxAverageNum} :
           /\ lru = LruNew(c)
           /\ lfu = LfuNew(c, m)
    /\ recency = << >>
    /\ last = NoCall
    /\ lruk = IdleLruK
    /\ accesses = IdleAccesses
    /\ arc = IdleArc
    /\ script = IdleScript
    /\ threads = IdleThreads
    /\ hashLru = IdleHashLru
    /\ hashLfu = IdleHashLfu

LruAndLfuPut ==
    \E k \in Keys, v \in {1} :
        \E ord \in LfuOrders(lfu, k) :
            \E r \in {LfuPut(lfu, k, v, ord)} :
                /\ r.st.curTotalNum <= MaxTotal
                /\ lru' = LruPut(lru, k, v)
                /\ lfu' = r.st
                /\ recency' = Touch(recency, k, DOMAIN lru'.nodeMap)
                /\ last' = Call("put", k, v, NoVal,
                                <<ValueOf(lru.nodeMap, k), LfuValueOf(lfu, k)>>,
                                {}, r.err)
                /\ UNCHANGED <<lruk, accesses, arc, script, threads, hashLru, hashLfu>>

LruAndLfuGet ==
    \E k \in Keys :
        \E ord \in IF k \in DOMAIN lfu.nodeMap THEN LfuOrders(lfu, k) ELSE {<< >>} :
            \E r \in {LfuGet(lfu, k, ord)} :
                /\ r.st.curTotalNum <= MaxTotal
                /\ lru' = LruGet(lru, k).st
                /\ lfu' = r.st
                /\ recency' = IF k \in DOMAIN lru.nodeMap
                              THEN Touch(recency, k, DOMAIN lru'.nodeMap) ELSE recency
                /\ last' = Call("get", k, NoVal, <<LruGet(lru, k).ret, r.ret>>,
                                <<ValueOf(lru.nodeMap, k), LfuValueOf(lfu, k)>>,
                                {}, FALSE)
                /\ UNCHANGED <<lruk, accesses, arc, script, threads, hashLru, hashLfu>>

NextLruAndLfu == LruAndLfuPut \/ LruAndLfuGet

SpecLruAndLfu == InitLruAndLfu /\ [][NextLruAndLfu]_vars

\* A HashLruCaches and a HashLfuCache built with the same capacity and
\* number of slices.  In last, ret is the bool a get returned and val the
\* value it wrote to its reference parameter (NoVal: left as it was).
InitHash ==
    /\ \E c \in 1..MaxHashCap, n \in 1..MaxSliceNum :
           /\ hashLru = HashLruNew(c, n)
           /\ hashLfu = HashLfuNew(c, n)
    /\ last = NoCall
    /\ lru = IdleLru
    /\ recency = << >>
    /\ lruk = IdleLruK
    /\ accesses = IdleAccesses
    /\ lfu = IdleLfu
    /\ arc = IdleArc
    /\ script = IdleScript
    /\ threads = IdleThreads

HashLruPutAction ==
    \E k \in Keys, v \in Vals :
        /\ hashLru' = HashLruPut(hashLru, k, v)
        /\ last' = Call("HashLruCaches::put", k, v, NoVal,
                        ValueOf(hashLru.lruSliceCaches[SliceIndex(hashLru, k)].nodeMap, k),
                        {}, FALSE)
        /\ UNCHANGED <<lru, recency, lruk, accesses, lfu, arc, script, threads, hashLfu>>

HashLruGetAction ==
    \E k \in Keys :
        \E r \in {HashLruGet(hashLru, k)} :
            /\ hashLru' = r.st
            /\ last' = Call("HashLruCaches::get", k, r.value, r.ret,
                            ValueOf(hashLru.lruSliceCaches[SliceIndex(hashLru, k)].nodeMap, k),
                            {}, FALSE)
            /\ UNCHANGED <<lru, recency, lruk, accesses, lfu, arc, script, threads, hashLfu>>

HashLfuPutAction ==
    \E k \in Keys, v \in {1} :
        \E ord \in LfuOrders(hashLfu.LfuSliceCaches[SliceIndex(hashLfu, k)], k) :
            \E r \in {HashLfuPut(hashLfu, k, v, ord)} :
                /\ r.st.LfuSliceCaches[SliceIndex(hashLfu, k)].curTotalNum <= MaxSliceTotal
                /\ hashLfu' = r.st
                /\ last' = Call("HashLfuCache::put", k, v, NoVal,
                                LfuValueOf(hashLfu.LfuSliceCaches[SliceIndex(hashLfu, k)], k),
                                {}, r.err)
                /\ UNCHANGED <<lru, recency, lruk, accesses, lfu, arc, script, threads, hashLru>>

HashLfuGetAction ==
    \E k \in Keys :
        \E ord \in IF k \in DOMAIN hashLfu.LfuSliceCaches[SliceIndex(hashLfu, k)].nodeMap
                   THEN LfuOrders(hashLfu.LfuSliceCaches[SliceIndex(hashLfu, k)], k)
                   ELSE {<< >>} :
            \E r \in {HashLfuGet(hashLfu, k, ord)} :
                /\ r.st.LfuSliceCaches[SliceIndex(hashLfu, k)].curTotalNum <= MaxSliceTotal
                /\ hashLfu' = r.st
                /\ last' = Call("HashLfuCache::get", k, r.value, r.ret,
                                LfuValueOf(hashLfu.LfuSliceCaches[SliceIndex(hashLfu, k)], k),
                                {}, FALSE)
                /\ UNCHANGED <<lru, recency, lruk, accesses, lfu, arc, script, threads, hashLru>>

HashLfuPurgeAction ==
    /\ hashLfu' = HashLfuPurge(hashLfu)
    /\ last' = Call("HashLfuCache::purge", NoKey, NoVal, NoVal, NoVal, {}, FALSE)
    /\ UNCHANGED <<lru, recency, lruk, accesses, lfu, arc, script, threads, hashLru>>

NextHash ==
    \/ HashLruPutAction
    \/ HashLruGetAction
    \/ HashLfuPutAction
    \/ HashLfuGetAction
    \/ HashLfuPurgeAction

SpecHash == InitHash /\ [][NextHash]_vars

InitLfuCtor ==
    /\ \E c \in CtorCapacities :
           \E m \in IF c <= 0 THEN {0 - 1, 0, 1, MaxAvg, DefaultMaxAverageNum}
                    ELSE {1, MaxAvg, DefaultMaxAverageNum} :
               /\ lfu = LfuCtor(c, m).st
               /\ last = Call("new", NoKey, NoVal, NoVal, NoVal, {}, LfuCtor(c, m).err)
    /\ lru = IdleLru
    /\ recency = << >>
    /\ lruk = IdleLruK
    /\ accesses = IdleAccesses
    /\ arc = IdleArc
    /\ script = IdleScript
    /\ threads = IdleThreads
    /\ hashLru = IdleHashLru
    /\ hashLfu = IdleHashLfu

NextLfuCtor ==
    /\ ~(last.op = "new" /\ last.err)
    /\ (LfuPutAction \/ LfuGetAction \/ LfuPurgeAction)

SpecLfuCtor == InitLfuCtor /\ [][NextLfuCtor]_vars

InitLfuValues == InitLfuWith(1..SmallMaxCap)

LfuPutValueAction == LfuPutOn(SmallKeys, Vals)

LfuGetValueAction == LfuGetOn(SmallKeys)

NextLfuValues == LfuPutValueAction \/ LfuGetValueAction \/ LfuPurgeAction

SpecLfuValues == InitLfuValues /\ [][NextLfuValues]_vars

\* The access counts grow with every hit; the calls are followed while every
\* count is at most MaxCount.
ArcCountsBounded(s) ==
    /\ \A j \in DOMAIN s.lruPart.mainCache : s.lruPart.mainCache[j].accessCount <= MaxCount
    /\ \A j \in DOMAIN s.lfuPart.mainCache : s.lfuPart.mainCache[j].accessCount <= MaxCount

\* The value a lookup would find for the key, in either part.
ArcValueOf(s, k) ==
    IF k \in DOMAIN s.lruPart.mainCache THEN s.lruPart.mainCache[k].value
    ELSE IF k \in DOMAIN s.lfuPart.mainCache THEN s.lfuPart.mainCache[k].value
    ELSE NoVal

ArcResidentKeys(s) == (DOMAIN s.lruPart.mainCache) \cup (DOMAIN s.lfuPart.mainCache)

InitArc ==
    /\ \E c \in 1..SmallMaxCap, t \in 1..MaxThreshold : arc = ArcNew(c, t)
    /\ last = NoCall
    /\ lru = IdleLru
    /\ recency = << >>
    /\ lruk = IdleLruK
    /\ accesses = IdleAccesses
    /\ lfu = IdleLfu
    /\ script = IdleScript
    /\ threads = IdleThreads
    /\ hashLru = IdleHashLru
    /\ hashLfu = IdleHashLfu

ArcPutAction ==
    \E k \in SmallKeys, v \in Vals :
        \E r \in {ArcPut(arc, k, v)} :
            /\ ArcCountsBounded(r)
            /\ arc' = r
            /\ last' = Call("put", k, v, NoVal, ArcValueOf(arc, k),
                            ArcResidentKeys(arc) \ ArcResidentKeys(r), FALSE)
            /\ UNCHANGED <<lru, recency, lruk, accesses, lfu, script, threads, hashLru, hashLfu>>

ArcGetAction ==
    \E k \in SmallKeys :
        \E r \in {ArcGet(arc, k)} :
            /\ ArcCountsBounded(r.st)
            /\ arc' = r.st
            /\ last' = Call("get", k, NoVal, r.ret, ArcValueOf(arc, k),
                            ArcResidentKeys(arc) \ ArcResidentKeys(r.st), FALSE)
            /\ UNCHANGED <<lru, recency, lruk, accesses, lfu, script, threads, hashLru, hashLfu>>

NextArc == ArcPutAction \/ ArcGetAction

SpecArc == InitArc /\ [][NextArc]_vars

\* The run of the test HandleOverMaxAverageNum: a cache of capacity 3 and
\* maxAverageNum 2, keys 1, 2, 3 put (the value of key k is k), seven gets,
\* then key 4 put.  The specification runs it for every pattern of seven gets
\* over the three keys; LfuScenarioAccesses is the pattern of the test.
LfuScenarioCapacity == 3

LfuScenarioMaxAverageNum == 2

LfuScenarioAccesses == <<1, 1, 2, 3, 3, 1, 2>>

PutCall(k, v) == [op |-> "put", key |-> k, val |-> v]

GetCall(k) == [op |-> "get", key |-> k, val |-> NoVal]

LfuScenarioCalls(acc) ==
    <<PutCall(1, 1), PutCall(2, 2), PutCall(3, 3)>>
        \o [i \in 1..Len(acc) |-> GetCall(acc[i])]
        \o <<PutCall(4, 4)>>

InitLfuScenario ==
    /\ lfu = LfuNew(LfuScenarioCapacity, LfuScenarioMaxAverageNum)
    /\ \E acc \in [1..Len(LfuScenarioAccesses) -> 1..LfuScenarioCapacity] :
           script = [calls |-> LfuScenarioCalls(acc), pos |-> 1]
    /\ last = NoCall
    /\ lru = IdleLru
    /\ recency = << >>
    /\ lruk = IdleLruK
    /\ accesses = IdleAccesses
    /\ arc = IdleArc
    /\ threads = IdleThreads
    /\ hashLru = IdleHashLru
    /\ hashLfu = IdleHashLfu

\* The next call of the script, made on lfu.
LfuScenarioStep ==
    /\ script.pos <= Len(script.calls)
    /\ LET call == script.calls[script.pos]
       IN  \E ord \in IF call.op = "put" \/ call.key \in DOMAIN lfu.nodeMap
                      THEN LfuOrders(lfu, call.key) ELSE {<< >>} :
               /\ IF call.op = "put"
                  THEN \E r \in {LfuPut(lfu, call.key, call.val, ord)} :
                           /\ lfu' = r.st
                           /\ last' = Call("put", call.key, call.val, NoVal,
                                           LfuValueOf(lfu, call.key),
                                           (DOMAIN lfu.nodeMap) \ (DOMAIN r.st.nodeMap), r.err)
                  ELSE \E r \in {LfuGet(lfu, call.key, ord)} :
                           /\ lfu' = r.st
                           /\ last' = Call("get", call.key, NoVal, r.ret,
                                           LfuValueOf(lfu, call.key), {}, FALSE)
               /\ script' = [script EXCEPT !.pos = @ + 1]
               /\ UNCHANGED <<lru, recency, lruk, accesses, arc, threads, hashLru, hashLfu>>

NextLfuScenario == LfuScenarioStep

SpecLfuScenario == InitLfuScenario /\ [][NextLfuScenario]_vars

\* Threads calling put and get on one LfuCache.  A call is followed through
\* the construction of its lock_guard, the lookup in nodeMap_, the rest of the
\* body and the destruction of the lock_guard on return.  written records,
\* for each key, the value of the latest put whose body ran.
LfuMutexFreeAlways(th) == TRUE

LfuMutexFree(th) == th.mutex = NoThread

InitLfuThreads ==
    /\ \E c \in 1..MaxCap, m \in {MaxAvg, DefaultMaxAverageNum} : lfu = LfuNew(c, m)
    /\ threads = [pc |-> [t \in Threads |-> "idle"],
                  call |-> [t \in Threads |-> GetCall(NoKey)],
                  found |-> [t \in Threads |-> FALSE],
                  mutex |-> NoThread,
                  written |-> EmptyMap,
                  calls |-> 0,
                  torn |-> FALSE]
    /\ last = NoCall
    /\ lru = IdleLru
    /\ recency = << >>
    /\ lruk = IdleLruK
    /\ accesses = IdleAccesses
    /\ arc = IdleArc
    /\ script = IdleScript
    /\ hashLru = IdleHashLru
    /\ hashLfu = IdleHashLfu

\* A thread calls put(k, v) or get(k, value); the values a thread puts tell
\* the thread (here its number), and MaxCalls calls are followed.
LfuThreadCall ==
    \E t \in Threads :
        /\ threads.pc[t] = "idle"
        /\ threads.calls < MaxCalls
        /\ \E call \in {PutCall(k, t) : k \in SmallKeys} \cup {GetCall(k) : k \in SmallKeys} :
               threads' = [threads EXCEPT !.pc[t] = "lock", !.call[t] = call,
                                          !.calls = @ + 1]
        /\ UNCHANGED <<lru, recency, lruk, accesses, lfu, arc, script, last, hashLru, hashLfu>>

\* std::lock_guard<std::mutex> lock(mutex_): the thread waits until the mutex
\* is free and takes it.
LfuThreadLock ==
    \E t \in Threads :
        /\ threads.pc[t] = "lock"
        /\ LfuMutexFree(threads)
        /\ threads' = [threads EXCEPT !.pc[t] = "find", !.mutex = t]
        /\ UNCHANGED <<lru, recency, lruk, accesses, lfu, arc, script, last, hashLru, hashLfu>>

\* auto it = nodeMap_.find(key)
LfuThreadFind ==
    \E t \in Threads :
        /\ threads.pc[t] = "find"
        /\ threads' = [threads EXCEPT
                          !.pc[t] = "body",
                          !.found[t] = threads.call[t].key \in DOMAIN lfu.nodeMap]
        /\ UNCHANGED <<lru, recency, lruk, accesses, lfu, arc, script, last, hashLru, hashLfu>>

\* The rest of the body of put or get, for the outcome found of the lookup.
\* An iterator to an entry that is no longer in nodeMap_ cannot be used: torn.
LfuBody(s, call, found, ord) ==
    LET k == call.key
    IN  IF found /\ k \notin DOMAIN s.nodeMap
        THEN [st |-> s, ret |-> NoVal, err |-> FALSE, torn |-> TRUE]
        ELSE IF call.op = "put"
        THEN IF found
             THEN [st |-> LfuGetInternal([s EXCEPT !.nodeMap[k].value = call.val], k, ord),
                   ret |-> NoVal, err |-> FALSE, torn |-> FALSE]
             ELSE [st |-> LfuPutInternal(s, k, call.val, ord).st, ret |-> NoVal,
                   err |-> LfuPutInternal(s, k, call.val, ord).err, torn |-> FALSE]
        ELSE IF found
             THEN [st |-> LfuGetInternal(s, k, ord), ret |-> s.nodeMap[k].value,
                   err |-> FALSE, torn |-> FALSE]
             ELSE [st |-> s, ret |-> NoVal, err |-> FALSE, torn |-> FALSE]

LfuThreadBody ==
    \E t \in Threads :
        /\ threads.pc[t] = "body"
        /\ LET call == threads.call[t]
           IN  \E ord \in IF call.op = "put" \/ call.key \in DOMAIN lfu.nodeMap
                          THEN LfuOrders(lfu, call.key) ELSE {<< >>} :
                   \E r \in {LfuBody(lfu, call, threads.found[t], ord)} :
                       /\ lfu' = r.st
                       /\ last' = Call(call.op, call.key, call.val, r.ret,
                                       LfuValueOf(lfu, call.key),
                                       (DOMAIN lfu.nodeMap) \ (DOMAIN r.st.nodeMap), r.err)
                       /\ threads' = [threads EXCEPT
                              !.pc[t] = "unlock",
                              !.torn = @ \/ r.torn,
                              !.written = IF call.op = "put" /\ ~r.torn
                                          THEN MapPut(@, call.key, call.val) ELSE @]
        /\ UNCHANGED <<lru, recency, lruk, accesses, arc, script, hashLru, hashLfu>>

\* The return: the lock_guard is destroyed and the mutex released.
LfuThreadUnlock ==
    \E t \in Threads :
        /\ threads.pc[t] = "unlock"
        /\ threads' = [threads EXCEPT !.pc[t] = "idle", !.mutex = NoThread]
        /\ UNCHANGED <<lru, recency, lruk, accesses, lfu, arc, script, last, hashLru, hashLfu>>

NextLfuThreads ==
    \/ LfuThreadCall
    \/ LfuThreadLock
    \/ LfuThreadFind
    \/ LfuThreadBody
    \/ LfuThreadUnlock

SpecLfuThreads == InitLfuThreads /\ [][NextLfuThreads]_vars

\* Threads calling get and put on one LruKCache.  LruKCache has no mutex of
\* its own: a call is a sequence of calls on the main cache (the LruCache
\* base) and on historyList_, each under the mutex of the LruCache it is made
\* on, and of accesses to historyValueMap_, which take none.  A call on a
\* LruCache is followed through the construction of its lock_guard and
\* through its body, at the end of which the lock_guard is destroyed.  count
\* is the local historyCount, stored the value to put into the main cache.
\* A lock_guard that leaves its scope without releasing the mutex.
UnlockNever(mutex, m) == mutex

\* The end of the scope of a std::lock_guard on mutex m: the mutex is free.
Unlock(mutex, m) == [mutex EXCEPT ![m] = NoThread]

LruKMutexOf(pc) ==
    IF pc \in {"mainGet", "mainPut"} THEN "main"
    ELSE IF pc \in {"historyGet", "historyPut", "historyRemove"} THEN "history"
    ELSE "none"

InitLruKThreads ==
    /\ \E c \in 1..SmallMaxCap, h \in 1..SmallMaxCap, k \in 1..MaxK : lruk = LruKNew(c, h, k)
    /\ threads = [pc |-> [t \in Threads |-> "idle"],
                  call |-> [t \in Threads |-> GetCall(NoKey)],
                  count |-> [t \in Threads |-> 0],
                  stored |-> [t \in Threads |-> NoVal],
                  mutex |-> [m \in {"main", "history"} |-> NoThread],
                  calls |-> 0,
                  err |-> FALSE,
                  policy |-> "LruKCache"]
    /\ accesses = IdleAccesses
    /\ last = NoCall
    /\ lru = IdleLru
    /\ recency = << >>
    /\ lfu = IdleLfu
    /\ arc = IdleArc
    /\ script = IdleScript
    /\ hashLru = IdleHashLru
    /\ hashLfu = IdleHashLfu

\* A thread calls put(key, value) or get(key); the values a thread puts tell
\* the thread, and MaxCalls calls are followed.
LruKThreadCall ==
    \E t \in Threads :
        /\ threads.pc[t] = "idle"
        /\ threads.calls < MaxCalls
        /\ \E call \in {PutCall(k, t) : k \in SmallKeys} \cup {GetCall(k) : k \in SmallKeys} :
               threads' = [threads EXCEPT !.pc[t] = "mainGet", !.call[t] = call,
                                          !.count[t] = 0, !.stored[t] = call.val,
                                          !.calls = @ + 1]
        /\ UNCHANGED <<lru, recency, lruk, accesses, lfu, arc, script, last, hashLru, hashLfu>>

\* std::lock_guard<std::mutex> lock(mutex_) of the LruCache the thread calls.
LruKThreadLock ==
    \E t \in Threads :
        /\ LruKMutexOf(threads.pc[t]) # "none"
        /\ threads.mutex[LruKMutexOf(threads.pc[t])] = NoThread
        /\ threads' = [threads EXCEPT !.mutex[LruKMutexOf(threads.pc[t])] = t]
        /\ UNCHANGED <<lru, recency, lruk, accesses, lfu, arc, script, last, hashLru, hashLfu>>

\* The next statement of get or put: the body of a call on a LruCache whose
\* mutex the thread holds, or an access to historyValueMap_.
LruKThreadStep ==
    \E t \in Threads :
        LET pc == threads.pc[t]
            call == threads.call[t]
            key == call.key
            m == LruKMutexOf(pc)
            Unlocked == IF m = "none" THEN threads.mutex ELSE Unlock(threads.mutex, m)
            Return(ret, err) ==
                /\ last' = Call(call.op, key, call.val, ret, NoVal, {}, err)
                /\ threads' = [threads EXCEPT !.pc[t] = "idle", !.mutex = Unlocked,
                                              !.err = @ \/ err]
            Goto(next, count, stored) ==
                /\ last' = last
                /\ threads' = [threads EXCEPT !.pc[t] = next, !.mutex = Unlocked,
                                              !.count[t] = count, !.stored[t] = stored]
        IN  /\ pc # "idle"
            /\ m # "none" => threads.mutex[m] = t
            /\ \/ /\ pc = "mainGet"
                  /\ \E r \in {LruGet(lruk.main, key)} :
                         /\ lruk' = [lruk EXCEPT !.main = r.st]
                         /\ IF r.ret = NoVal
                            THEN Goto("historyGet", 0, threads.stored[t])
                            ELSE IF call.op = "put"
                            THEN Goto("mainPut", 0, threads.stored[t])
                            ELSE Return(r.ret, FALSE)
               \/ /\ pc = "mainPut"
                  /\ lruk' = [lruk EXCEPT !.main = LruPut(lruk.main, key, threads.stored[t])]
                  /\ Return(IF call.op = "get" THEN threads.stored[t] ELSE NoVal, FALSE)
               \/ /\ pc = "historyGet"
                  /\ \E r \in {LruGet(lruk.historyList, key)} :
                         /\ lruk' = [lruk EXCEPT !.historyList = r.st]
                         /\ Goto("historyPut", r.ret + 1, threads.stored[t])
               \/ /\ pc = "historyPut"
                  /\ lruk' = [lruk EXCEPT
                         !.historyList = LruPut(lruk.historyList, key, threads.count[t])]
                  /\ Goto("valueMap", threads.count[t], threads.stored[t])
               \/ /\ pc = "valueMap"
                  /\ call.op = "put"
                  /\ lruk' = [lruk EXCEPT
                         !.historyValueMap = MapPut(lruk.historyValueMap, key, call.val)]
                  /\ IF threads.count[t] >= lruk.k
                     THEN Goto("historyRemove", threads.count[t], call.val)
                     ELSE Return(NoVal, FALSE)
               \/ /\ pc = "valueMap"
                  /\ call.op = "get"
                  /\ lruk' = lruk
                  /\ IF key \notin DOMAIN lruk.historyValueMap
                     THEN Return(NoVal, FALSE)
                     ELSE IF threads.count[t] >= lruk.k
                     THEN Goto("historyRemove", threads.count[t], lruk.historyValueMap[key])
                     ELSE Return(lruk.historyValueMap[key], FALSE)
               \/ /\ pc = "historyRemove"
                  /\ \E r \in {LruRemove(lruk.historyList, key)} :
                         /\ lruk' = [lruk EXCEPT !.historyList = r.st]
                         /\ IF r.err
                            THEN Return(NoVal, TRUE)
                            ELSE Goto("valueErase", threads.count[t], threads.stored[t])
               \/ /\ pc = "valueErase"
                  /\ lruk' = [lruk EXCEPT
                         !.historyValueMap = MapErase(lruk.historyValueMap, key)]
                  /\ Goto("mainPut", threads.count[t], threads.stored[t])
            /\ UNCHANGED <<lru, recency, accesses, lfu, arc, script, hashLru, hashLfu>>

NextLruKThreads == LruKThreadCall \/ LruKThreadLock \/ LruKThreadStep

SpecLruKThreads == InitLruKThreads /\ [][NextLruKThreads]_vars

\* The capacities, lists and counts of an ArcCache do not depend on the
\* values stored: SpecArcShape follows them with one value.
ArcPutShapeAction ==
    \E k \in Keys :
        \E r \in {ArcPut(arc, k, 1)} :
            /\ ArcCountsBounded(r)
            /\ arc' = r
            /\ last' = Call("put", k, 1, NoVal, ArcValueOf(arc, k),
                            ArcResidentKeys(arc) \ ArcResidentKeys(r), FALSE)
            /\ UNCHANGED <<lru, recency, lruk, accesses, lfu, script, threads, hashLru, hashLfu>>

ArcGetShapeAction ==
    \E k \in Keys :
        \E r \in {ArcGet(arc, k)} :
            /\ ArcCountsBounded(r.st)
            /\ arc' = r.st
            /\ last' = Call("get", k, NoVal, r.ret, ArcValueOf(arc, k),
                            ArcResidentKeys(arc) \ ArcResidentKeys(r.st), FALSE)
            /\ UNCHANGED <<lru, recency, lruk, accesses, lfu, script, threads, hashLru, hashLfu>>

NextArcShape == ArcPutShapeAction \/ ArcGetShapeAction

SpecArcShape == InitArc /\ [][NextArcShape]_vars

\* Threads calling get and put on one ArcCache.  ArcCache has no mutex of its
\* own: a call is a sequence of calls on the two parts, each of which runs
\* under the mutex of its part, and of ArcLruPart::remove, which takes none.
\* After at most MaxSetup calls made one after the other, every thread makes
\* one call on the same key, thread 1 a get; the steps of the calls interleave.
\* start is the cache when the threads start, value the out-parameter of the
\* LRU part's get and ret what the call returns (NoVal for false and for put).
InitArcThreads ==
    /\ \E c \in 1..SmallMaxCap, t \in 1..MaxThreshold : arc = ArcNew(c, t)
    /\ threads = [pc |-> [t \in Threads |-> "idle"],
                  call |-> [t \in Threads |-> GetCall(NoKey)],
                  value |-> [t \in Threads |-> NoVal],
                  ret |-> [t \in Threads |-> NoVal],
                  start |-> IdleArc,
                  started |-> FALSE,
                  calls |-> 0,
                  torn |-> FALSE,
                  mutex |-> [m \in {"lru", "lfu"} |-> NoThread],
                  policy |-> "ArcCache"]
    /\ last = NoCall
    /\ lru = IdleLru
    /\ recency = << >>
    /\ lruk = IdleLruK
    /\ accesses = IdleAccesses
    /\ lfu = IdleLfu
    /\ script = IdleScript
    /\ hashLru = IdleHashLru
    /\ hashLfu = IdleHashLfu

ArcSetupPut ==
    /\ ~threads.started
    /\ threads.calls < MaxSetup
    /\ \E k \in SmallKeys, v \in Vals :
           /\ arc' = ArcPut(arc, k, v)
           /\ last' = Call("put", k, v, NoVal, ArcValueOf(arc, k), {}, FALSE)
    /\ threads' = [threads EXCEPT !.calls = @ + 1]
    /\ UNCHANGED <<lru, recency, lruk, accesses, lfu, script, hashLru, hashLfu>>

ArcSetupGet ==
    /\ ~threads.started
    /\ threads.calls < MaxSetup
    /\ \E k \in SmallKeys :
           /\ arc' = ArcGet(arc, k).st
           /\ last' = Call("get", k, NoVal, ArcGet(arc, k).ret, ArcValueOf(arc, k), {}, FALSE)
    /\ threads' = [threads EXCEPT !.calls = @ + 1]
    /\ UNCHANGED <<lru, recency, lruk, accesses, lfu, script, hashLru, hashLfu>>

ArcThreadsStart ==
    /\ ~threads.started
    /\ \E k \in SmallKeys :
           \E calls \in [Threads -> {GetCall(k)} \cup {PutCall(k, v) : v \in Vals}] :
               /\ calls[1] = GetCall(k)
               /\ threads' = [threads EXCEPT !.started = TRUE, !.start = arc,
                                             !.call = calls,
                                             !.pc = [t \in Threads |-> "checkGhostLru"]]
    /\ UNCHANGED <<lru, recency, lruk, accesses, lfu, arc, script, last, hashLru, hashLfu>>

\* The mutex_ the next call of a thread takes: that of lruPart_ or that of
\* lfuPart_; ArcLruPart::remove takes none.
ArcMutexOf(pc) ==
    IF pc \in {"checkGhostLru", "increaseLru", "decreaseLru", "putLru", "getLru"}
    THEN "lru"
    ELSE IF pc \in {"checkGhostLfu", "decreaseLfu", "increaseLfu", "contain", "putLfu",
                    "promote", "getLfu"}
    THEN "lfu"
    ELSE "none"

ArcHolds(t) ==
    ArcMutexOf(threads.pc[t]) # "none" => threads.mutex[ArcMutexOf(threads.pc[t])] = t

\* threads once the call of thread t on a part has returned.
ArcUnlocked(t) ==
    IF ArcMutexOf(threads.pc[t]) = "none" THEN threads
    ELSE [threads EXCEPT !.mutex = Unlock(threads.mutex, ArcMutexOf(threads.pc[t]))]

\* std::lock_guard<std::mutex> lock(mutex_) of the part the thread calls.
ArcThreadLock ==
    \E t \in Threads :
        /\ ArcMutexOf(threads.pc[t]) # "none"
        /\ threads.mutex[ArcMutexOf(threads.pc[t])] = NoThread
        /\ threads' = [threads EXCEPT !.mutex[ArcMutexOf(threads.pc[t])] = t]
        /\ UNCHANGED <<lru, recency, lruk, accesses, lfu, arc, script, last, hashLru, hashLfu>>

\* Where a call goes on after checkGhostCaches.
ArcAfterGhost(call) == IF call.op = "put" THEN "contain" ELSE "getLru"

\* checkGhostCaches: lruPart_->checkGhost(key)
ArcThreadCheckGhostLru ==
    \E t \in Threads :
        /\ threads.pc[t] = "checkGhostLru"
        /\ ArcHolds(t)
        /\ \E r \in {ArcLruCheckGhost(arc.lruPart, threads.call[t].key)} :
               /\ arc' = [arc EXCEPT !.lruPart = r.st]
               /\ threads' = [ArcUnlocked(t) EXCEPT
                      !.pc[t] = IF r.ret THEN "decreaseLfu" ELSE "checkGhostLfu"]
        /\ UNCHANGED <<lru, recency, lruk, accesses, lfu, script, last, hashLru, hashLfu>>

\* checkGhostCaches: lfuPart_->decreaseCapacity()
ArcThreadDecreaseLfu ==
    \E t \in Threads :
        /\ threads.pc[t] = "decreaseLfu"
        /\ ArcHolds(t)
        /\ \E r \in {ArcLfuDecreaseCapacity(arc.lfuPart)} :
               /\ arc' = [arc EXCEPT !.lfuPart = r.st]
               /\ threads' = [ArcUnlocked(t) EXCEPT
                      !.pc[t] = IF r.ret THEN "increaseLru" ELSE ArcAfterGhost(threads.call[t])]
        /\ UNCHANGED <<lru, recency, lruk, accesses, lfu, script, last, hashLru, hashLfu>>

\* checkGhostCaches: lruPart_->increaseCapacity()
ArcThreadIncreaseLru ==
    \E t \in Threads :
        /\ threads.pc[t] = "increaseLru"
        /\ ArcHolds(t)
        /\ arc' = [arc EXCEPT !.lruPart = ArcLruIncreaseCapacity(arc.lruPart)]
        /\ threads' = [ArcUnlocked(t) EXCEPT !.pc[t] = ArcAfterGhost(threads.call[t])]
        /\ UNCHANGED <<lru, recency, lruk, accesses, lfu, script, last, hashLru, hashLfu>>

\* checkGhostCaches: lfuPart_->checkGhost(key)
ArcThreadCheckGhostLfu ==
    \E t \in Threads :
        /\ threads.pc[t] = "checkGhostLfu"
        /\ ArcHolds(t)
        /\ \E r \in {ArcLfuCheckGhost(arc.lfuPart, threads.call[t].key)} :
               /\ arc' = [arc EXCEPT !.lfuPart = r.st]
               /\ threads' = [ArcUnlocked(t) EXCEPT
                      !.pc[t] = IF r.ret THEN "decreaseLru" ELSE ArcAfterGhost(threads.call[t])]
        /\ UNCHANGED <<lru, recency, lruk, accesses, lfu, script, last, hashLru, hashLfu>>

\* checkGhostCaches: lruPart_->decreaseCapacity()
ArcThreadDecreaseLru ==
    \E t \in Threads :
        /\ threads.pc[t] = "decreaseLru"
        /\ ArcHolds(t)
        /\ \E r \in {ArcLruDecreaseCapacity(arc.lruPart)} :
               /\ arc' = [arc EXCEPT !.lruPart = r.st]
               /\ threads' = [ArcUnlocked(t) EXCEPT
                      !.pc[t] = IF r.ret THEN "increaseLfu" ELSE ArcAfterGhost(threads.call[t])]
        /\ UNCHANGED <<lru, recency, lruk, accesses, lfu, script, last, hashLru, hashLfu>>

\* checkGhostCaches: lfuPart_->increaseCapacity()
ArcThreadIncreaseLfu ==
    \E t \in Threads :
        /\ threads.pc[t] = "increaseLfu"
        /\ ArcHolds(t)
        /\ arc' = [arc EXCEPT !.lfuPart = ArcLfuIncreaseCapacity(arc.lfuPart)]
        /\ threads' = [ArcUnlocked(t) EXCEPT !.pc[t] = ArcAfterGhost(threads.call[t])]
        /\ UNCHANGED <<lru, recency, lruk, accesses, lfu, script, last, hashLru, hashLfu>>

\* put: bool inLfu = lfuPart_->contain(key)
ArcThreadContain ==
    \E t \in Threads :
        /\ threads.pc[t] = "contain"
        /\ ArcHolds(t)
        /\ threads' = [ArcUnlocked(t) EXCEPT
               !.pc[t] = IF ArcLfuContain(arc.lfuPart, threads.call[t].key)
                         THEN "putLfu" ELSE "putLru"]
        /\ UNCHANGED <<lru, recency, lruk, accesses, lfu, arc, script, last, hashLru, hashLfu>>

\* put: lfuPart_->put(key, value)
ArcThreadPutLfu ==
    \E t \in Threads :
        /\ threads.pc[t] = "putLfu"
        /\ ArcHolds(t)
        /\ arc' = [arc EXCEPT
               !.lfuPart = ArcLfuPut(arc.lfuPart, threads.call[t].key, threads.call[t].val).st]
        /\ last' = Call("put", threads.call[t].key, threads.call[t].val, NoVal,
                        ArcValueOf(arc, threads.call[t].key), {}, FALSE)
        /\ threads' = [ArcUnlocked(t) EXCEPT !.pc[t] = "done"]
        /\ UNCHANGED <<lru, recency, lruk, accesses, lfu, script, hashLru, hashLfu>>

\* put: lruPart_->put(key, value)
ArcThreadPutLru ==
    \E t \in Threads :
        /\ threads.pc[t] = "putLru"
        /\ ArcHolds(t)
        /\ arc' = [arc EXCEPT
               !.lruPart = ArcLruPut(arc.lruPart, threads.call[t].key, threads.call[t].val).st]
        /\ last' = Call("put", threads.call[t].key, threads.call[t].val, NoVal,
                        ArcValueOf(arc, threads.call[t].key), {}, FALSE)
        /\ threads' = [ArcUnlocked(t) EXCEPT !.pc[t] = "done"]
        /\ UNCHANGED <<lru, recency, lruk, accesses, lfu, script, hashLru, hashLfu>>

\* get: lruPart_->get(key, value, shouldTransform)
ArcThreadGetLru ==
    \E t \in Threads :
        /\ threads.pc[t] = "getLru"
        /\ ArcHolds(t)
        /\ \E r \in {ArcLruGet(arc.lruPart, threads.call[t].key)} :
               /\ arc' = [arc EXCEPT !.lruPart = r.st]
               /\ threads' = [ArcUnlocked(t) EXCEPT
                      !.value[t] = r.value,
                      !.ret[t] = r.value,
                      !.pc[t] = IF ~r.ret THEN "getLfu"
                                ELSE IF r.shouldTransform THEN "remove" ELSE "done"]
        /\ UNCHANGED <<lru, recency, lruk, accesses, lfu, script, last, hashLru, hashLfu>>

\* get: lruPart_->remove(key), with no mutex held.  A key that is no longer in
\* mainCache_ makes it use the end iterator: torn.
ArcThreadRemove ==
    \E t \in Threads :
        /\ threads.pc[t] = "remove"
        /\ ArcHolds(t)
        /\ IF threads.call[t].key \in DOMAIN arc.lruPart.mainCache
           THEN /\ arc' = [arc EXCEPT !.lruPart = ArcLruRemove(arc.lruPart, threads.call[t].key)]
                /\ threads' = [ArcUnlocked(t) EXCEPT !.pc[t] = "promote"]
           ELSE /\ arc' = arc
                /\ threads' = [ArcUnlocked(t) EXCEPT !.pc[t] = "promote", !.torn = TRUE]
        /\ UNCHANGED <<lru, recency, lruk, accesses, lfu, script, last, hashLru, hashLfu>>

\* get: lfuPart_->put(key, value), with the value the LRU part's get gave.
ArcThreadPromote ==
    \E t \in Threads :
        /\ threads.pc[t] = "promote"
        /\ ArcHolds(t)
        /\ arc' = [arc EXCEPT
               !.lfuPart = ArcLfuPut(arc.lfuPart, threads.call[t].key, threads.value[t]).st]
        /\ threads' = [ArcUnlocked(t) EXCEPT !.pc[t] = "done"]
        /\ UNCHANGED <<lru, recency, lruk, accesses, lfu, script, last, hashLru, hashLfu>>

\* get: return lfuPart_->get(key, value)
ArcThreadGetLfu ==
    \E t \in Threads :
        /\ threads.pc[t] = "getLfu"
        /\ ArcHolds(t)
        /\ \E r \in {ArcLfuGet(arc.lfuPart, threads.call[t].key)} :
               /\ arc' = [arc EXCEPT !.lfuPart = r.st]
               /\ threads' = [ArcUnlocked(t) EXCEPT !.ret[t] = r.value, !.pc[t] = "done"]
        /\ UNCHANGED <<lru, recency, lruk, accesses, lfu, script, last, hashLru, hashLfu>>

NextArcThreads ==
    \/ ArcSetupPut
    \/ ArcSetupGet
    \/ ArcThreadsStart
    \/ ArcThreadLock
    \/ ArcThreadCheckGhostLru
    \/ ArcThreadDecreaseLfu
    \/ ArcThreadIncreaseLru
    \/ ArcThreadCheckGhostLfu
    \/ ArcThreadDecreaseLru
    \/ ArcThreadIncreaseLfu
    \/ ArcThreadContain
    \/ ArcThreadPutLfu
    \/ ArcThreadPutLru
    \/ ArcThreadGetLru
    \/ ArcThreadRemove
    \/ ArcThreadPromote
    \/ ArcThreadGetLfu

SpecArcThreads == InitArcThreads /\ [][NextArcThreads]_vars

\* Threads calling put and get on one HashLruCaches; the mutexes are those
\* of its slices, by index.
InitHashThreads ==
    /\ \E c \in 1..MaxHashCap, n \in 1..MaxSliceNum :
           /\ hashLru = HashLruNew(c, n)
           /\ threads = [pc |-> [t \in Threads |-> "idle"],
                         call |-> [t \in Threads |-> GetCall(NoKey)],
                         mutex |-> [i \in 0..(n - 1) |-> NoThread],
                         calls |-> 0,
                         policy |-> "HashLruCaches"]
    /\ hashLfu = IdleHashLfu
    /\ last = NoCall
    /\ lru = IdleLru
    /\ recency = << >>
    /\ lruk = IdleLruK
    /\ accesses = IdleAccesses
    /\ lfu = IdleLfu
    /\ arc = IdleArc
    /\ script = IdleScript

\* A thread calls put(key, value) or get(key, value) and computes sliceIndex.
HashThreadCall ==
    \E t \in Threads :
        /\ threads.pc[t] = "idle"
        /\ threads.calls < MaxCalls
        /\ \E call \in {PutCall(k, t) : k \in Keys} \cup {GetCall(k) : k \in Keys} :
               threads' = [threads EXCEPT !.pc[t] = "slice", !.call[t] = call,
                                          !.calls = @ + 1]
        /\ UNCHANGED <<lru, recency, lruk, accesses, lfu, arc, script, last, hashLru, hashLfu>>

\* std::lock_guard<std::mutex> lock(mutex_) of the slice the key routes to.
HashThreadLock ==
    \E t \in Threads :
        /\ threads.pc[t] = "slice"
        /\ threads.mutex[SliceIndex(hashLru, threads.call[t].key)] = NoThread
        /\ threads' = [threads EXCEPT
               !.mutex[SliceIndex(hashLru, threads.call[t].key)] = t]
        /\ UNCHANGED <<lru, recency, lruk, accesses, lfu, arc, script, last, hashLru, hashLfu>>

\* The body of the slice's put or get, to its return.
HashThreadStep ==
    \E t \in Threads :
        LET call == threads.call[t]
            i == SliceIndex(hashLru, call.key)
        IN  /\ threads.pc[t] = "slice"
            /\ threads.mutex[i] = t
            /\ IF call.op = "put"
               THEN /\ hashLru' = HashLruPut(hashLru, call.key, call.val)
                    /\ last' = Call("put", call.key, call.val, NoVal, NoVal, {}, FALSE)
               ELSE \E r \in {HashLruGet(hashLru, call.key)} :
                        /\ hashLru' = r.st
                        /\ last' = Call("get", call.key, r.value, r.ret, NoVal, {}, FALSE)
            /\ threads' = [threads EXCEPT !.pc[t] = "idle",
                                          !.mutex = Unlock(threads.mutex, i)]
            /\ UNCHANGED <<lru, recency, lruk, accesses, lfu, arc, script, hashLfu>>

NextHashThreads == HashThreadCall \/ HashThreadLock \/ HashThreadStep

\* Threads on a cache of one of the three classes that are built from
\* several locked caches.
InitLocks == InitLruKThreads \/ InitArcThreads \/ InitHashThreads

NextLocks ==
    \/ threads.policy = "LruKCache" /\ NextLruKThreads
    \/ threads.policy = "ArcCache" /\ NextArcThreads
    \/ threads.policy = "HashLruCaches" /\ NextHashThreads

SpecLocks == InitLocks /\ [][NextLocks]_vars

\* The steps of the calls in progress.  A thread that can run is run: the
\* scheduler does not stop every runnable thread for ever.  The calls followed
\* are bounded, so no thread can be overtaken without end.
LocksProgress ==
    \/ threads.policy = "LruKCache" /\ (LruKThreadLock \/ LruKThreadStep)
    \/ threads.policy = "ArcCache" /\ (NextArcThreads /\ threads.started)
    \/ threads.policy = "HashLruCaches" /\ (HashThreadLock \/ HashThreadStep)

FairSpecLocks == SpecLocks /\ WF_vars(LocksProgress)

\* The calls made one after the other on s, in the order ord of the threads:
\* the cache they leave and what each returns.
RECURSIVE ArcRunInOrder(_, _, _, _)
ArcRunInOrder(s, calls, ord, i) ==
    IF i > Len(ord) THEN [st |-> s, ret |-> EmptyMap]
    ELSE LET c == calls[ord[i]]
             one == IF c.op = "put"
                    THEN [st |-> ArcPut(s, c.key, c.val), ret |-> NoVal]
                    ELSE ArcGet(s, c.key)
             rest == ArcRunInOrder(one.st, calls, ord, i + 1)
         IN  [st |-> rest.st, ret |-> MapPut(rest.ret, ord[i], one.ret)]


(* ------------------------- LruCache: claims --------------------------- *)
\* C1: in every reachable state of an LruCache, put(k,v) immediately followed
\* by get(k) returns v, whether k was absent or resident with another value.
C1_LruPutThenGet ==
    last.op = "put" => LruGet(lru, last.key).ret = last.val

C1_Witness ==
    /\ last.op = "put"
    /\ last.old # NoVal
    /\ last.old # last.val
    /\ LruGet(lru, last.key).ret = last.val

\* C4: LruCache.put evicts only when the key is not resident and the cache
\* holds exactly `capacity` entries, and then evicts exactly the entry whose
\* last access is the oldest; a put or a get hit leaves its key the most
\* recently used; an update and a get evict nothing.
C4_LruEviction ==
    [][ LET k == last'.key
            evicted == (DOMAIN lru.nodeMap) \ (DOMAIN lru'.nodeMap)
            full == Cardinality(DOMAIN lru.nodeMap) = lru.capacity
        IN  /\ last'.op = "put" =>
                /\ IF k \notin DOMAIN lru.nodeMap /\ full
                   THEN evicted = {Head(recency)}
                   ELSE evicted = {}
                /\ lru'.list # << >>
                /\ lru'.list[Len(lru'.list)] = k
                /\ recency'[Len(recency')] = k
            /\ (last'.op = "get" /\ k \in DOMAIN lru.nodeMap) =>
                /\ evicted = {}
                /\ lru'.list[Len(lru'.list)] = k
      ]_vars

C4_Witness ==
    /\ last.op = "put"
    /\ last.evicted # {}
    /\ lru.capacity >= 2

\* C6: the number of keys in the LruCache index equals the number of
\* resident (linked) entries and never exceeds the capacity.
C6_LruSize ==
    /\ Cardinality(DOMAIN lru.nodeMap) = Len(lru.list)
    /\ Cardinality(DOMAIN lru.nodeMap) <= lru.capacity

C6_Witness ==
    /\ last.op = "put"
    /\ last.evicted # {}
    /\ Cardinality(DOMAIN lru.nodeMap) = lru.capacity
    /\ lru.capacity = MaxCap

(* ------------------------- LruKCache: claims -------------------------- *)
\* C9: LruKCache.put(k,v) on a key outside the main cache increments the
\* history count of k; if the count is then >= k_, k is resident in the main
\* cache with value v and is in neither the history nor the pending-value
\* map; otherwise k is not resident, its history holds the new count and its
\* pending value is v.  No key is left waiting with a pending value and a
\* history count >= k_.
C9_LruKPutAdmission ==
    [][ LET k == last'.key
            v == last'.val
            count == ValueOf(lruk.historyList.nodeMap, k) + 1
        IN  /\ (last'.op = "put" /\ k \notin DOMAIN lruk.main.nodeMap) =>
                /\ ~last'.err
                /\ IF count >= lruk.k
                   THEN /\ k \in DOMAIN lruk'.main.nodeMap
                        /\ lruk'.main.nodeMap[k] = v
                        /\ k \notin DOMAIN lruk'.historyList.nodeMap
                        /\ k \notin DOMAIN lruk'.historyValueMap
                   ELSE /\ k \notin DOMAIN lruk'.main.nodeMap
                        /\ k \in DOMAIN lruk'.historyList.nodeMap
                        /\ lruk'.historyList.nodeMap[k] = count
                        /\ k \in DOMAIN lruk'.historyValueMap
                        /\ lruk'.historyValueMap[k] = v
            /\ \A j \in (DOMAIN lruk'.historyValueMap) \cap (DOMAIN lruk'.historyList.nodeMap) :
                    lruk'.historyList.nodeMap[j] < lruk'.k
      ]_vars

C9_Witness ==
    /\ last.op = "put"
    /\ lruk.k = MaxK
    /\ last.evicted # {}
    /\ last.key \in DOMAIN lruk.main.nodeMap
    /\ lruk.main.nodeMap[last.key] = last.val
    /\ last.key \notin DOMAIN lruk.historyList.nodeMap
    /\ last.key \notin DOMAIN lruk.historyValueMap

\* C10: a key on which fewer than k_ get/put calls were made, since the start
\* or since it was evicted from the main cache, is not resident in the main
\* cache; a get on a key outside the main cache returns absent unless a
\* pending value exists for the key.
C10_LruKAdmissionThreshold ==
    [][ LET k == last'.key
        IN  /\ \A j \in DOMAIN lruk'.main.nodeMap : accesses'[j] >= lruk'.k
            /\ (last'.op = "get" /\ k \notin DOMAIN lruk.main.nodeMap
                    /\ k \notin DOMAIN lruk.historyValueMap) =>
                /\ last'.ret = NoVal
                /\ k \notin DOMAIN lruk'.main.nodeMap
      ]_vars

C10_Witness ==
    /\ lruk.k >= 2
    /\ last.evicted # {}
    /\ \A j \in last.evicted : accesses[j] = 0 /\ j \notin DOMAIN lruk.main.nodeMap
    /\ \E j \in SmallKeys : j \in DOMAIN lruk.main.nodeMap /\ accesses[j] = lruk.k

\* C11: LruKCache.get(k) on a key outside the main cache increments the
\* history count of k.  With no pending value it returns absent and admits
\* nothing; with one it returns that value and puts k into the main cache
\* with it, out of the history and the pending-value map, exactly when the
\* new count is >= k_.  The pending value of a key is the value of the latest
\* put on it: only a put on the key stores or changes it, and a key of the
\* main cache has none.
C11_LruKGet ==
    [][ LET k == last'.key
            count == ValueOf(lruk.historyList.nodeMap, k) + 1
            pending == lruk.historyValueMap
        IN  /\ (last'.op = "get" /\ k \notin DOMAIN lruk.main.nodeMap) =>
                /\ ~last'.err
                /\ IF k \notin DOMAIN pending
                   THEN /\ last'.ret = NoVal
                        /\ k \notin DOMAIN lruk'.main.nodeMap
                        /\ k \in DOMAIN lruk'.historyList.nodeMap
                        /\ lruk'.historyList.nodeMap[k] = count
                        /\ lruk'.historyValueMap = pending
                   ELSE /\ last'.ret = pending[k]
                        /\ IF count >= lruk.k
                           THEN /\ k \in DOMAIN lruk'.main.nodeMap
                                /\ lruk'.main.nodeMap[k] = pending[k]
                                /\ k \notin DOMAIN lruk'.historyList.nodeMap
                                /\ k \notin DOMAIN lruk'.historyValueMap
                           ELSE /\ k \notin DOMAIN lruk'.main.nodeMap
                                /\ k \in DOMAIN lruk'.historyList.nodeMap
                                /\ lruk'.historyList.nodeMap[k] = count
                                /\ k \in DOMAIN lruk'.historyValueMap
                                /\ lruk'.historyValueMap[k] = pending[k]
            /\ \A j \in DOMAIN lruk'.historyValueMap :
                   IF last'.op = "put" /\ j = k
                   THEN lruk'.historyValueMap[j] = last'.val
                   ELSE j \in DOMAIN pending /\ lruk'.historyValueMap[j] = pending[j]
            /\ (DOMAIN lruk'.historyValueMap) \cap (DOMAIN lruk'.main.nodeMap) = {}
      ]_vars

\* A get that returned the pending value of a key on its k_-th access (k_ = 2:
\* put then get) and admitted it.
C11_Witness ==
    /\ last.op = "get"
    /\ lruk.k = MaxK
    /\ last.ret # NoVal
    /\ accesses[last.key] = MaxK
    /\ last.key \in DOMAIN lruk.main.nodeMap
    /\ lruk.main.nodeMap[last.key] = last.ret
    /\ last.key \notin DOMAIN lruk.historyValueMap

\* C12: an LruKCache with k_ = 1 and an LruCache of the same capacity, given
\* the same sequence of put/get calls: no call throws, every get returns the
\* same in both, and after every call the main cache of the LruKCache holds
\* the same keys, values and recency order as the LruCache.
C12_LruK1EqualsLru ==
    /\ lruk.main = lru
    /\ [][ /\ lruk'.main = lru'
           /\ ~last'.err
           /\ last'.op = "get" => last'.ret = LruGet(lru, last'.key).ret
         ]_vars

\* Both caches are full, the last call evicted, and a miss has left a count
\* in the history of the LruKCache.
C12_Witness ==
    /\ lruk.k = 1
    /\ lruk.main = lru
    /\ Len(lru.list) = lru.capacity
    /\ last.op = "put"
    /\ last.evicted # {}
    /\ \E j \in DOMAIN lruk.historyList.nodeMap : lruk.historyList.nodeMap[j] >= 2

\* C13: at every call boundary of an LruKCache every key with a pending value
\* is a key of the history sub-cache (a key the history evicts loses its
\* pending value), so the pending-value map holds at most historyCapacity
\* entries.
C13_LruKPendingWithinHistory ==
    /\ DOMAIN lruk.historyValueMap \subseteq DOMAIN lruk.historyList.nodeMap
    /\ Cardinality(DOMAIN lruk.historyValueMap) <= lruk.historyList.capacity

(* -------------------------- LfuCache: claims -------------------------- *)
\* An aging pass has run since the construction or the last purge: the
\* average it left behind is above the ceiling.
LfuAged == lfu.curAverageNum > lfu.maxAverageNum

\* C2: in every reachable state of an LfuCache (after aging and evictions
\* too), put(k,v) does not throw and a get(k, out) right after it returns true
\* with out = v, for a new key and for a resident key that is overwritten.
C2_LfuPutThenGet ==
    last.op = "put" =>
        /\ ~last.err
        /\ \A ord \in Orders(DOMAIN lfu.nodeMap) :
               LfuGet(lfu, last.key, ord).ret = last.val

C2_Witness ==
    /\ last.op = "put"
    /\ last.old # NoVal
    /\ last.old # last.val
    /\ LfuAged
    /\ \A ord \in Orders(DOMAIN lfu.nodeMap) : LfuGet(lfu, last.key, ord).ret = last.val

\* C5: when LfuCache.put inserts a new key into a full cache, exactly one
\* entry is evicted; it has the least frequency of all resident entries and,
\* among the entries of that frequency, it is the one linked into the bucket
\* the earliest, which is the head of the bucket's list; the new key is then
\* resident with frequency 1.
C5_LfuEviction ==
    [][ LET k == last'.key
            before == DOMAIN lfu.nodeMap
            evicted == before \ (DOMAIN lfu'.nodeMap)
            Position(j) == CHOOSE i \in 1..Len(lfu.entered) : lfu.entered[i] = j
        IN  (last'.op = "put" /\ k \notin before /\ Cardinality(before) = lfu.capacity) =>
                /\ ~last'.err
                /\ DOMAIN lfu'.nodeMap = (before \ evicted) \cup {k}
                /\ lfu'.nodeMap[k].freq = 1
                /\ \E victim \in before :
                    /\ evicted = {victim}
                    /\ \A j \in before : lfu.nodeMap[victim].freq <= lfu.nodeMap[j].freq
                    /\ \A j \in before :
                           lfu.nodeMap[j].freq = lfu.nodeMap[victim].freq
                               => Position(victim) <= Position(j)
                    /\ lfu.nodeMap[victim].freq \in DOMAIN lfu.freqToFreqList
                    /\ lfu.freqToFreqList[lfu.nodeMap[victim].freq] # << >>
                    /\ Head(lfu.freqToFreqList[lfu.nodeMap[victim].freq]) = victim
      ]_vars

C5_Witness ==
    /\ last.op = "put"
    /\ last.evicted # {}
    /\ lfu.capacity >= 2
    /\ LfuAged
    /\ \E j \in DOMAIN lfu.nodeMap : lfu.nodeMap[j].freq >= 2

\* C7: the index of an LfuCache never holds more keys than the capacity,
\* whatever put/get/purge calls (and aging passes) were made.
C7_LfuSize ==
    Cardinality(DOMAIN lfu.nodeMap) <= lfu.capacity

C7_Witness ==
    /\ last.op = "put"
    /\ last.evicted # {}
    /\ LfuAged
    /\ Cardinality(DOMAIN lfu.nodeMap) = lfu.capacity
    /\ lfu.capacity = MaxCap

\* C16: LfuCache.purge() leaves the cache in the state its constructor
\* leaves it in for the same capacity and maxAverageNum (no entry, no
\* frequency list, curTotalNum_ and curAverageNum_ 0, minFreq_ as constructed),
\* so every get misses and every later call behaves as on a new cache.
C16_LfuPurge ==
    last.op = "purge" =>
        /\ lfu = LfuNew(lfu.capacity, lfu.maxAverageNum)
        /\ \A k \in Keys : LfuGet(lfu, k, << >>).ret = NoVal

\* A purge of a full cache of the largest capacity.
C16_Witness ==
    /\ last.op = "purge"
    /\ Cardinality(last.evicted) = MaxCap
    /\ lfu.nodeMap = EmptyMap

\* C17: an access (a put, or a get that hits) counts one more for its key
\* (a new key starts at 1); an aging pass runs exactly when, after the access,
\* the integer quotient curTotalNum_ / size exceeds maxAverageNum_, and it
\* lowers the frequency of every resident entry by maxAverageNum_ / 2, to no
\* less than 1.  So no call lowers a frequency by more than maxAverageNum_ / 2
\* and every resident entry's frequency is >= 1.
C17_LfuAging ==
    [][ LET k == last'.key
            before == lfu.nodeMap
            after == lfu'.nodeMap
            half == lfu.maxAverageNum \div 2
            access == last'.op = "put" \/ (last'.op = "get" /\ k \in DOMAIN before)
            aged == access /\ lfu'.curTotalNum \div Cardinality(DOMAIN after) > lfu.maxAverageNum
            Lowered(f) == IF f - half < 1 THEN 1 ELSE f - half
            Counted(j) == IF j = k /\ access
                          THEN (IF k \in DOMAIN before THEN before[k].freq + 1 ELSE 1)
                          ELSE before[j].freq
        IN  last'.op \in {"put", "get"} =>
                \A j \in DOMAIN after :
                    /\ after[j].freq = IF aged THEN Lowered(Counted(j)) ELSE Counted(j)
                    /\ after[j].freq >= 1
                    /\ j \in DOMAIN before => after[j].freq >= before[j].freq - half
      ]_vars

\* The last call was a get hit that set off an aging pass with
\* maxAverageNum_ / 2 >= 1 in a full cache, and entries of frequency 1 and of
\* a higher frequency are left.
C17_Witness ==
    /\ last.op = "get"
    /\ last.ret # NoVal
    /\ LfuAged
    /\ lfu.maxAverageNum = MaxAvg
    /\ Cardinality(DOMAIN lfu.nodeMap) = MaxCap
    /\ \E i, j \in DOMAIN lfu.nodeMap : lfu.nodeMap[i].freq = 1 /\ lfu.nodeMap[j].freq >= 2

\* C18: after the run put(1), put(2), put(3), get 1, 1, 2, 3, 3, 1, 2, put(4)
\* on an LfuCache of capacity 3 and maxAverageNum 2, key 3 is absent and keys
\* 1, 2 and 4 are resident with their values, in whatever order the aging
\* passes visited the entries.
C18_LfuAgingScenario ==
    (/\ script.calls = LfuScenarioCalls(LfuScenarioAccesses)
     /\ script.pos > Len(script.calls)) =>
        /\ LfuGet(lfu, 3, << >>).ret = NoVal
        /\ \A k \in {1, 2, 4} : \A ord \in Orders(DOMAIN lfu.nodeMap) :
               LfuGet(lfu, k, ord).ret = k

\* C19: with several threads calling put and get on one LfuCache, the whole
\* body of a call runs under the cache mutex: only the thread that holds the
\* mutex changes the cache, no other thread is inside a body at that time, and
\* the call has the effect and the result of the sequential put or get on the
\* state it finds; the sequential invariants (size within capacity, every
\* frequency >= 1, every resident key once in the list of its frequency, no
\* error) hold in every state; and when the capacity is at least the number of
\* keys, every key that was put holds the value of its latest put, in
\* particular once all threads have finished.
C19_LfuThreadSafe ==
    /\ [](
         /\ Cardinality(DOMAIN lfu.nodeMap) <= lfu.capacity
         /\ ~last.err
         /\ ~threads.torn
         /\ \A k \in DOMAIN lfu.nodeMap :
                /\ lfu.nodeMap[k].freq >= 1
                /\ lfu.nodeMap[k].freq \in DOMAIN lfu.freqToFreqList
                /\ Cardinality({i \in 1..Len(lfu.freqToFreqList[lfu.nodeMap[k].freq]) :
                                    lfu.freqToFreqList[lfu.nodeMap[k].freq][i] = k}) = 1
         /\ \A t, u \in Threads :
                (/\ threads.pc[t] \in {"find", "body", "unlock"}
                 /\ threads.pc[u] \in {"find", "body", "unlock"}) => t = u
         /\ \A t \in Threads :
                threads.pc[t] \in {"find", "body", "unlock"} => threads.mutex = t
         /\ \A t \in Threads :
                threads.pc[t] = "body" =>
                    threads.found[t] = (threads.call[t].key \in DOMAIN lfu.nodeMap)
         /\ lfu.capacity >= Cardinality(SmallKeys) =>
                \A k \in DOMAIN threads.written : LfuValueOf(lfu, k) = threads.written[k] )
    /\ [][ lfu' # lfu =>
               \E t \in Threads :
                   /\ threads.pc[t] = "body"
                   /\ threads.mutex = t
                   /\ threads'.pc[t] = "unlock"
                   /\ \A u \in Threads \ {t} : threads.pc[u] \in {"idle", "lock"}
                   /\ LET call == threads.call[t]
                      IN  \E ord \in Orders(DOMAIN lfu.nodeMap \cup DOMAIN lfu'.nodeMap) \cup {<< >>} :
                              IF call.op = "put"
                              THEN lfu' = LfuPut(lfu, call.key, call.val, ord).st
                              ELSE /\ lfu' = LfuGet(lfu, call.key, ord).st
                                   /\ last'.ret = LfuGet(lfu, call.key, ord).ret
         ]_vars

\* All threads have finished MaxCalls calls on a cache that holds every key;
\* the last body to run was a put that replaced the value another put had
\* written, and both keys were put.
C19_Witness ==
    /\ threads.calls = MaxCalls
    /\ \A t \in Threads : threads.pc[t] = "idle"
    /\ lfu.capacity >= Cardinality(SmallKeys)
    /\ DOMAIN threads.written = SmallKeys
    /\ last.op = "put"
    /\ last.old # NoVal
    /\ last.old # last.val
    /\ LfuValueOf(lfu, last.key) = last.val

(* --------------------------- ArcCache: claims -------------------------- *)
\* C3: in every reachable state of an ArcCache (after a promotion of k from
\* the LRU part to the LFU part and after ghost hits have moved capacity
\* between the parts too), put(k,v) immediately followed by get(k) returns v.
C3_ArcPutThenGet ==
    last.op = "put" => ArcGet(arc, last.key).ret = last.val

\* C8: the resident entries of the two parts of an ArcCache, the nodes linked
\* in the LRU part's main list plus the entries of the LFU part, never number
\* more than the capacity the cache was constructed with.
C8_ArcSize ==
    Len(arc.lruPart.mainList) + Cardinality(DOMAIN arc.lfuPart.mainCache) <= arc.capacity

\* C14: a put or get on key k that finds k in B1 (the ghost list of the LRU
\* part) takes one unit of capacity from the LFU part and gives it to the LRU
\* part if the LFU part's capacity was > 0, and changes neither capacity if it
\* was 0; one that finds k in B2 instead moves one unit from the LRU part to
\* the LFU part in the same way; one with no ghost hit changes neither.  The
\* sum of the two capacities never changes.
C14_ArcCapacityShift ==
    [][ LET k == last'.key
            lruCap == arc.lruPart.capacity
            lfuCap == arc.lfuPart.capacity
            inB1 == k \in arc.lruPart.ghostCache
            inB2 == k \notin arc.lruPart.ghostCache /\ k \in arc.lfuPart.ghostCache
            Same == /\ arc'.lruPart.capacity = lruCap
                    /\ arc'.lfuPart.capacity = lfuCap
        IN  /\ inB1 => IF lfuCap > 0
                       THEN /\ arc'.lfuPart.capacity = lfuCap - 1
                            /\ arc'.lruPart.capacity = lruCap + 1
                       ELSE Same
            /\ inB2 => IF lruCap > 0
                       THEN /\ arc'.lruPart.capacity = lruCap - 1
                            /\ arc'.lfuPart.capacity = lfuCap + 1
                       ELSE Same
            /\ (~inB1 /\ ~inB2) => Same
            /\ k \notin arc'.lruPart.ghostCache
            /\ arc'.lruPart.capacity + arc'.lfuPart.capacity = lruCap + lfuCap
      ]_vars

\* Ghost hits in B1 have moved the whole capacity of the LFU part to the LRU
\* part, and B1 holds a key: the next hit in B1 finds the LFU part at 0.
C14_Witness ==
    /\ last.op = "get"
    /\ arc.lfuPart.capacity = 0
    /\ arc.lruPart.capacity = 2 * arc.capacity
    /\ arc.lruPart.ghostCache # {}

\* C15: in every reachable state of an ArcCache constructed with capacity c
\* the capacity of the LRU part and the capacity of the LFU part each lie
\* between 0 and c.
C15_ArcCapacityRange ==
    /\ arc.lruPart.capacity \in 0..arc.capacity
    /\ arc.lfuPart.capacity \in 0..arc.capacity


\* C20: calls on the same key made by different threads are linearizable:
\* once a get(k) and a put(k, v2), or two get(k), made at the same time have
\* returned, what they returned and the cache they leave are those of the two
\* calls made one after the other in one of the two orders; so the value of
\* a put(k, v2) that returned is not replaced by the older value a promotion
\* of k carries.
C20_ArcLinearizable ==
    (/\ threads.pc # << >>
     /\ \A t \in Threads : threads.pc[t] = "done"
     /\ ~threads.torn) =>
        LET Held(part, k) == IF k \in DOMAIN part.mainCache
                             THEN part.mainCache[k].value ELSE NoVal
        IN  \E ord \in Orders(Threads) :
                \E r \in {ArcRunInOrder(threads.start, threads.call, ord, 1)} :
                    /\ \A t \in Threads : threads.ret[t] = r.ret[t]
                    /\ \A k \in SmallKeys :
                           /\ Held(arc.lruPart, k) = Held(r.st.lruPart, k)
                           /\ Held(arc.lfuPart, k) = Held(r.st.lfuPart, k)

\* C21: whatever the interleaving of the get and put calls of the threads on
\* one LruKCache, no call raises an error: the NotFound error of
\* historyList_->remove in moveToLruCache does not escape.
C21_LruKThreadsNoError ==
    threads.pc # << >> => (~last.err /\ ~threads.err)

\* C23: constructing an LruCache with capacity <= 0 fails with
\* invalid_argument, so an LruCache of non-positive capacity never receives a
\* put or a get.
C23_LruCtorRejects ==
    lru.capacity <= 0 => (last.op = "new" /\ last.err)

\* C24: constructing an LfuCache with capacity 0 or a negative capacity throws
\* invalid_argument, for every maxAverageNum; so an LfuCache of non-positive
\* capacity is never there to be called.
C24_LfuCtorRejects ==
    lfu.capacity <= 0 => (last.op = "new" /\ last.err)

\* The constructor was called with a negative capacity and maxAverageNum
\* MaxAvg, and threw.
C24_Witness ==
    /\ lfu.capacity < 0
    /\ lfu.maxAverageNum = MaxAvg
    /\ last.op = "new"
    /\ last.err

C26_LfuPutNeverRaises ==
    /\ ~last.err
    /\ lfu.capacity >= 1
    /\ Cardinality(DOMAIN lfu.nodeMap) = lfu.capacity =>
           /\ lfu.minFreq \in DOMAIN lfu.freqToFreqList
           /\ lfu.freqToFreqList[lfu.minFreq] # << >>
           /\ ~LfuKickOut(lfu).err

\* A put of a new key into a full cache, after the nodes were aged, evicted
\* a key and returned.
C26_Witness ==
    /\ last.op = "put"
    /\ last.old = NoVal
    /\ last.evicted # {}
    /\ ~last.err
    /\ lfu.curTotalNum >= 3

\* C27: get(k) on a key that is not resident returns absent and leaves the
\* whole state of the cache unchanged (no reordering, no counter changed),
\* in LruCache and in LfuCache.
C27_GetMissChangesNothing ==
    [][last'.op = "get" =>
          /\ last'.key \notin DOMAIN lru.nodeMap =>
                 /\ last'.ret[1] = NoVal
                 /\ lru' = lru
                 /\ recency' = recency
          /\ last'.key \notin DOMAIN lfu.nodeMap =>
                 /\ last'.ret[2] = NoVal
                 /\ lfu' = lfu]_vars

\* A get missed in both caches while each held another key, and in the
\* LfuCache hits had been counted.
C27_Witness ==
    /\ last.op = "get"
    /\ last.ret = <<NoVal, NoVal>>
    /\ last.old = <<NoVal, NoVal>>
    /\ lru.list # << >>
    /\ lfu.curTotalNum >= 2

\* C28: HashLfuCache.get(key, out) returns true exactly when key is resident
\* in the slice it routes to, as the LfuCache.get of that slice does.
C28_HashLfuGetHitOrMiss ==
    last.op = "HashLfuCache::get" => (last.ret <=> last.old # NoVal)

\* C29: the slices of a wrapper of capacity C with N slices hold at most
\* ceil(C / N) keys each, every key is held only by the slice of index
\* hash(key) mod N, and together the slices hold at most C keys.
C29_HashCapacity ==
    /\ \A i \in DOMAIN hashLru.lruSliceCaches :
           /\ Cardinality(DOMAIN hashLru.lruSliceCaches[i].nodeMap)
                  <= SliceSize(hashLru.capacity, hashLru.sliceNum)
           /\ \A k \in DOMAIN hashLru.lruSliceCaches[i].nodeMap :
                  i = Hash(k) % hashLru.sliceNum
    /\ \A i \in DOMAIN hashLfu.LfuSliceCaches :
           /\ Cardinality(DOMAIN hashLfu.LfuSliceCaches[i].nodeMap)
                  <= SliceSize(hashLfu.capacity, hashLfu.sliceNum)
           /\ \A k \in DOMAIN hashLfu.LfuSliceCaches[i].nodeMap :
                  i = Hash(k) % hashLfu.sliceNum
    /\ Cardinality(UNION {DOMAIN hashLru.lruSliceCaches[i].nodeMap :
                              i \in DOMAIN hashLru.lruSliceCaches}) <= hashLru.capacity
    /\ Cardinality(UNION {DOMAIN hashLfu.LfuSliceCaches[i].nodeMap :
                              i \in DOMAIN hashLfu.LfuSliceCaches}) <= hashLfu.capacity

\* C30: after every sequence of put and get on an ArcCache, every key is in
\* at most one of T1 (the index of the LRU part), T2 (the index of the LFU
\* part), B1 (the ghost index of the LRU part) and B2 (the ghost index of
\* the LFU part).
C30_ArcGhostExclusion ==
    \A k \in Keys :
        Cardinality({x \in {"T1", "T2", "B1", "B2"} :
                        \/ x = "T1" /\ k \in DOMAIN arc.lruPart.mainCache
                        \/ x = "T2" /\ k \in DOMAIN arc.lfuPart.mainCache
                        \/ x = "B1" /\ k \in arc.lruPart.ghostCache
                        \/ x = "B2" /\ k \in arc.lfuPart.ghostCache}) <= 1

\* C22: deadlock freedom of the caches built from several locked caches
\* (LruKCache on its main cache and its history cache, ArcCache on its LRU
\* part and its LFU part, HashLruCaches on a slice): no thread ever holds two
\* mutexes at once; whenever a call is in progress some thread in a call can
\* take a step; and under fair scheduling, whenever calls are in progress a
\* state follows in which none is, so every call that started has ended (it
\* returned or, in LruKCache, left by the out_of_range exception).
C22_DeadlockFree ==
    /\ [](\A t \in Threads :
              Cardinality({m \in DOMAIN threads.mutex : threads.mutex[m] = t}) <= 1)
    /\ []((\E t \in Threads : threads.pc[t] \notin {"idle", "done"})
              => ENABLED LocksProgress)
    /\ (\E t \in Threads : threads.pc[t] \notin {"idle", "done"})
           ~> (\A t \in Threads : threads.pc[t] \in {"idle", "done"})

\* In an LruKCache, thread 1 needs the mutex of the history cache while
\* thread 2 holds it.
C22_Witness ==
    /\ threads.policy = "LruKCache"
    /\ LruKMutexOf(threads.pc[1]) = "history"
    /\ threads.mutex["history"] = 2

\* C31: when get(k) of an ArcCache hits in the LRU part and shouldTransform
\* is true, then after the call k is in neither the index nor the list of the
\* LRU part and is resident in the LFU part with the same value, and the get
\* that follows is served by the LFU part (the LRU part does not find k).
C31_ArcPromotion ==
    [][last'.op = "get" =>
          LET k == last'.key
              r == ArcLruGet(ArcCheckGhostCaches(arc, k).st.lruPart, k)
          IN  (r.ret /\ r.shouldTransform) =>
                  /\ k \notin DOMAIN arc'.lruPart.mainCache
                  /\ \A i \in 1..Len(arc'.lruPart.mainList) : arc'.lruPart.mainList[i] # k
                  /\ k \in DOMAIN arc'.lfuPart.mainCache
                  /\ arc'.lfuPart.mainCache[k].value = r.value
                  /\ ~ArcLruGet(ArcCheckGhostCaches(arc', k).st.lruPart, k).ret]_vars

\* C32: at every operation boundary of an ArcCache the index of the LRU part
\* holds at most the current capacity of the LRU part and the index of the
\* LFU part at most the current capacity of the LFU part.
C32_ArcPartCapacity ==
    /\ Cardinality(DOMAIN arc.lruPart.mainCache) <= arc.lruPart.capacity
    /\ Cardinality(DOMAIN arc.lfuPart.mainCache) <= arc.lfuPart.capacity

\* C33: at every public operation boundary of an LfuCache at which an entry
\* is resident, minFreq_ is the smallest frequency whose list is not empty:
\* after hits that empty the lowest list, after evictions, after aging passes
\* within a hit or an insert, and after a purge followed by inserts.
C33_LfuMinFreq ==
    DOMAIN lfu.nodeMap # {} =>
        /\ lfu.minFreq \in DOMAIN lfu.freqToFreqList
        /\ lfu.freqToFreqList[lfu.minFreq] # << >>
        /\ \A f \in DOMAIN lfu.freqToFreqList :
               lfu.freqToFreqList[f] # << >> => lfu.minFreq <= f

\* A get hit set off an aging pass that left every entry above frequency 1
\* in a cache of several entries, so minFreq_ is 2 or more.
C33_Witness ==
    /\ last.op = "get"
    /\ last.ret # NoVal
    /\ lfu.curAverageNum > lfu.maxAverageNum
    /\ Cardinality(DOMAIN lfu.nodeMap) >= 2
    /\ lfu.minFreq >= 2

C35_LfuIndexBucketConsistency ==
    /\ ~lfu.fault
    /\ \A k \in DOMAIN lfu.nodeMap :
          /\ lfu.nodeMap[k].freq \in DOMAIN lfu.freqToFreqList
          /\ Cardinality({i \in 1..Len(lfu.freqToFreqList[lfu.nodeMap[k].freq]) :
                             lfu.freqToFreqList[lfu.nodeMap[k].freq][i] = k}) = 1
    /\ \A f \in DOMAIN lfu.freqToFreqList :
          \A i \in 1..Len(lfu.freqToFreqList[f]) :
             /\ lfu.freqToFreqList[f][i] \in DOMAIN lfu.nodeMap
             /\ lfu.nodeMap[lfu.freqToFreqList[f][i]].freq = f

\* A hit left two resident entries in two different frequency lists, one of
\* them emptied before.
C35_Witness ==
    /\ last.op = "get"
    /\ last.ret # NoVal
    /\ Cardinality(DOMAIN lfu.nodeMap) = 2
    /\ \E k1, k2 \in DOMAIN lfu.nodeMap : lfu.nodeMap[k1].freq < lfu.nodeMap[k2].freq
    /\ \E f \in DOMAIN lfu.freqToFreqList : lfu.freqToFreqList[f] = << >>

\* C36: when ArcCache::put or ArcCache::get is called with a key that one of
\* the two ghost indexes holds, the key is in neither ghost index and on
\* neither ghost chain when the call returns.
C36_ArcGhostConsumed ==
    [][(last'.key \in arc.lruPart.ghostCache \cup arc.lfuPart.ghostCache) =>
          /\ last'.key \notin arc'.lruPart.ghostCache \cup arc'.lfuPart.ghostCache
          /\ \A i \in 1..Len(arc'.lruPart.ghostList) : arc'.lruPart.ghostList[i] # last'.key
          /\ \A i \in 1..Len(arc'.lfuPart.ghostList) : arc'.lfuPart.ghostList[i] # last'.key]_vars

\* The LRU part has grown by a hit in its ghost list (its capacity grows
\* nowhere else) and the key of the put that has just returned is resident
\* in it and in no ghost list.
C36_Witness ==
    /\ last.op = "put"
    /\ last.old = NoVal
    /\ arc.lruPart.capacity > arc.capacity
    /\ arc.lruPart.mainList # << >>
    /\ Head(arc.lruPart.mainList) = last.key
    /\ last.key \notin arc.lruPart.ghostCache \cup arc.lfuPart.ghostCache

InitArcLruPart ==
    /\ \E c \in 1..MaxCap, t \in 1..MaxCount : arc = ArcNew(c, t)
    /\ last = NoCall
    /\ lru = IdleLru
    /\ recency = << >>
    /\ lruk = IdleLruK
    /\ accesses = IdleAccesses
    /\ lfu = IdleLfu
    /\ script = IdleScript
    /\ threads = IdleThreads
    /\ hashLru = IdleHashLru
    /\ hashLfu = IdleHashLfu

ArcLruPartPutAction ==
    \E k \in SmallKeys, v \in Vals :
        \E r \in {ArcLruPut(arc.lruPart, k, v)} :
            /\ arc' = [arc EXCEPT !.lruPart = r.st]
            /\ last' = [op |-> "put", key |-> k, val |-> v, found |-> r.ret,
                        ret |-> NoVal, shouldTransform |-> FALSE]
            /\ UNCHANGED <<lru, recency, lruk, accesses, lfu, script, threads, hashLru, hashLfu>>

ArcLruPartGetAction ==
    \E k \in SmallKeys :
        \E r \in {ArcLruGet(arc.lruPart, k)} :
            /\ \A j \in DOMAIN r.st.mainCache : r.st.mainCache[j].accessCount <= MaxCount
            /\ arc' = [arc EXCEPT !.lruPart = r.st]
            /\ last' = [op |-> "get", key |-> k, val |-> NoVal, found |-> r.ret,
                        ret |-> r.value, shouldTransform |-> r.shouldTransform]
            /\ UNCHANGED <<lru, recency, lruk, accesses, lfu, script, threads, hashLru, hashLfu>>

ArcLruPartRemoveAction ==
    \E k \in DOMAIN arc.lruPart.mainCache :
        /\ arc' = [arc EXCEPT !.lruPart = ArcLruRemove(arc.lruPart, k)]
        /\ last' = [op |-> "remove", key |-> k, val |-> NoVal, found |-> TRUE,
                    ret |-> NoVal, shouldTransform |-> FALSE]
        /\ UNCHANGED <<lru, recency, lruk, accesses, lfu, script, threads, hashLru, hashLfu>>

NextArcLruPart == ArcLruPartPutAction \/ ArcLruPartGetAction \/ ArcLruPartRemoveAction

SpecArcLruPart == InitArcLruPart /\ [][NextArcLruPart]_vars

\* C38: ArcLruPart::get of a key of mainCache_ returns true and the stored
\* value, leaves the node the first of the chain, in mainCache_ and with an
\* access count one higher, and sets shouldTransform exactly when the new
\* count is at least transformThreshold; of a key that mainCache_ does not
\* hold it returns false and changes nothing.  A put of a new key gives its
\* node the count 1 and the value put; a put of a key of mainCache_ stores
\* the value and leaves the count.
C38_ArcLruPartGet ==
    [][/\ last'.op = "get" =>
            LET k == last'.key
                s == arc.lruPart
                t == arc'.lruPart
            IN  IF k \in DOMAIN s.mainCache
                THEN /\ last'.found
                     /\ last'.ret = s.mainCache[k].value
                     /\ DOMAIN t.mainCache = DOMAIN s.mainCache
                     /\ t.mainCache[k].value = s.mainCache[k].value
                     /\ t.mainCache[k].accessCount = s.mainCache[k].accessCount + 1
                     /\ \A j \in DOMAIN s.mainCache \ {k} : t.mainCache[j] = s.mainCache[j]
                     /\ t.mainList # << >>
                     /\ Head(t.mainList) = k
                     /\ Tail(t.mainList) = SeqRemove(s.mainList, k)
                     /\ last'.shouldTransform
                            <=> (t.mainCache[k].accessCount >= t.transformThreshold)
                     /\ t.ghostCache = s.ghostCache
                     /\ t.ghostList = s.ghostList
                     /\ t.capacity = s.capacity
                ELSE /\ ~last'.found
                     /\ arc' = arc
       /\ last'.op = "put" =>
            LET k == last'.key
                s == arc.lruPart
                t == arc'.lruPart
            IN  /\ last'.found
                /\ t.mainCache[k].value = last'.val
                /\ t.mainCache[k].accessCount =
                      IF k \in DOMAIN s.mainCache THEN s.mainCache[k].accessCount ELSE 1]_vars

\* A get of a resident key with the count 1 under the threshold 3: the count
\* is 2, the node the first of two and no promotion is asked for.
C38_Witness ==
    /\ last.op = "get"
    /\ last.found
    /\ ~last.shouldTransform
    /\ last.ret # NoVal
    /\ arc.lruPart.transformThreshold = 3
    /\ Len(arc.lruPart.mainList) = 2
    /\ Head(arc.lruPart.mainList) = last.key
    /\ arc.lruPart.mainCache[last.key].accessCount = 2

\* C39: once the threads run, every step that changes the state of the LRU
\* part (of the LFU part) of an ArcCache is the step of a thread that holds
\* the mutex of that part.
C39_ArcMutualExclusion ==
    [][/\ (threads.started /\ arc'.lruPart # arc.lruPart) =>
              \E t \in Threads : /\ threads.mutex["lru"] = t
                                 /\ threads'.pc[t] # threads.pc[t]
       /\ (threads.started /\ arc'.lfuPart # arc.lfuPart) =>
              \E t \in Threads : /\ threads.mutex["lfu"] = t
                                 /\ threads'.pc[t] # threads.pc[t]]_vars

\* C40: after every put, get and purge of an LfuCache curTotalNum_ is the
\* sum of the frequencies of the nodes of the index.
C40_LfuTotalIsSumOfFreq ==
    LET sum[S \in SUBSET Keys] ==
            IF S = {} THEN 0
            ELSE LET k == CHOOSE x \in S : TRUE
                 IN  lfu.nodeMap[k].freq + sum[S \ {k}]
    IN  lfu.curTotalNum = sum[DOMAIN lfu.nodeMap]

=========================================================================
